---- MODULE Spec2Model ----
(***************************************************************************)
(* Model of the PS.KZ exporter's scrape cycle: Exporter.Collect together   *)
(* with the client calls it makes and the processors it dispatches to.     *)
(*                                                                         *)
(* A raw document is a tagged JSON tree (the map[string]interface{} the    *)
(* client hands to the collector).  A metric vector is a set of samples    *)
(* [m, l, v] with at most one sample per (m, l).  The channel a Collect    *)
(* call writes to is a bag of samples.                                     *)
(***************************************************************************)
EXTENDS Bags, FiniteSets, Integers, Sequences, TLC

\* ------------------------------------------------------------------ bounds
NumProcs == 2      \* concurrent scrape requests
MaxElapsed == 2    \* elapsed seconds measured by one Collect call: 1..MaxElapsed

Procs == 1..NumProcs

\* ------------------------------------------------- tagged JSON documents
Str(s) == [t |-> "s", s |-> s]
Num(n) == [t |-> "n", n |-> n]
Obj(f) == [t |-> "o", f |-> f]
Arr(a) == [t |-> "a", a |-> a]
Absent == [t |-> "x"]

IsStr(j) == j.t = "s"
IsNum(j) == j.t = "n"
IsObj(j) == j.t = "o"
IsArr(j) == j.t = "a"

\* m[key] on a Go map: the zero interface (Absent) when the key is missing.
Get(j, key) == IF key \in DOMAIN j.f THEN j.f[key] ELSE Absent

\* v, ok := m[key].(map[string]interface{}) chained along a path; Absent as
\* soon as one step is not an object holding the next key.
RECURSIVE Walk(_, _)
Walk(j, path) ==
  IF path = <<>> THEN j
  ELSE IF ~IsObj(j) THEN Absent
  ELSE Walk(Get(j, Head(path)), Tail(path))

\* ------------------------------------------------------ samples and writes
Sample(m, l, v) == [m |-> m, l |-> l, v |-> v]
Key(s) == [m |-> s.m, l |-> s.l]
Keys(S) == {Key(s) : s \in S}

\* A Set that drops the child it finds instead of overwriting it.
SetSample_Toggle(vec, w) ==
  IF \E s \in vec : Key(s) = Key(w) THEN {s \in vec : Key(s) # Key(w)} ELSE vec \cup {w}

\* GaugeVec.WithLabelValues(l...).Set(v): replaces the value under (m, l).
SetSample(vec, w) == {s \in vec : Key(s) # Key(w)} \cup {w}

RECURSIVE ApplyWrites(_, _)
ApplyWrites(vec, ws) ==
  IF ws = <<>> THEN vec ELSE ApplyWrites(SetSample(vec, Head(ws)), Tail(ws))

SeqRange(s) == {s[i] : i \in 1..Len(s)}

RECURSIVE SeqToBag(_)
SeqToBag(s) ==
  IF s = <<>> THEN EmptyBag ELSE SetToBag({Head(s)}) (+) SeqToBag(Tail(s))

RECURSIVE SetToSeq(_)
SetToSeq(S) ==
  IF S = {} THEN <<>>
  ELSE LET x == CHOOSE y \in S : TRUE IN <<x>> \o SetToSeq(S \ {x})

RECURSIVE Concat(_)
Concat(ss) == IF ss = <<>> THEN <<>> ELSE Head(ss) \o Concat(Tail(ss))

\* for _, item := range items { ... }: the writes of each item, in order.
FlatMap(Op(_), items) == Concat([i \in 1..Len(items) |-> Op(items[i])])

\* if v, ok := obj[key].(float64); ok { vec.WithLabelValues(l...).Set(v) }
NumField(obj, key, m, l) ==
  IF IsNum(Get(obj, key)) THEN <<Sample(m, l, Get(obj, key).n)>> ELSE <<>>

\* s, _ := obj[key].(string): the empty string when absent or not a string.
StrOrEmpty(obj, key) == IF IsStr(Get(obj, key)) THEN Get(obj, key).s ELSE ""

\* s, ok := obj[key].(string); if !ok { s = dflt }
StrOr(obj, key, dflt) == IF IsStr(Get(obj, key)) THEN Get(obj, key).s ELSE dflt

\* The outcome of a processor: the writes it made, in order, and whether it
\* ended in a panic (a failed type assertion or a label-arity mismatch).
Done(ws) == [ws |-> ws, panic |-> FALSE]
Panicked(ws) == [ws |-> ws, panic |-> TRUE]

\* ----------------------------------------------------------- processors
processAccountBalanceInfo(balanceData) ==
  LET info == Walk(balanceData, <<"data", "account", "current", "info">>) IN
  IF ~IsObj(info) THEN Done(<<>>)
  ELSE LET credit == Get(info, "credit") IN
    Done(NumField(info, "balance", "pskz_prepay_balance", <<"account">>)
      \o NumField(info, "bonuses", "pskz_bonus_balance", <<"account">>)
      \o NumField(info, "blocked", "pskz_blocked_balance", <<"account">>)
      \o (IF IsObj(credit)
          THEN NumField(credit, "credit", "pskz_credit_balance", <<"account_credit">>)
            \o NumField(credit, "maxCredit", "pskz_credit_balance", <<"account_max_credit">>)
            \o NumField(credit, "availableCredit", "pskz_credit_balance",
                        <<"account_available_credit">>)
          ELSE <<>>))

processDomainCounters(domainCountersData) ==
  LET stats == Walk(domainCountersData, <<"data", "account", "domains", "stats">>) IN
  IF ~IsObj(stats) THEN Done(<<>>)
  ELSE Done(NumField(stats, "total", "pskz_domain_counters", <<"total">>)
         \o NumField(stats, "active", "pskz_domain_counters", <<"active">>)
         \o NumField(stats, "expired", "pskz_domain_counters", <<"expired">>)
         \o NumField(stats, "pending", "pskz_domain_counters", <<"pending">>))

ProjectItemWrites(item) ==
  IF ~IsObj(item) THEN <<>>
  ELSE IF ~IsNum(Get(item, "id")) THEN <<>>
  ELSE LET id == Get(item, "id").n
           projectIdStr == IF IsStr(Get(item, "domain"))
                           THEN Get(item, "domain").s \o "-" \o ToString(id)
                           ELSE ToString(id)
       IN NumField(item, "price", "pskz_project_amount", <<projectIdStr>>)
       \o NumField(item, "diskUsage", "pskz_project_disk_usage_gb", <<projectIdStr>>)
       \o NumField(item, "diskLimit", "pskz_project_disk_limit_gb", <<projectIdStr>>)
       \o NumField(item, "bandwidthUsage", "pskz_project_bw_usage_gb", <<projectIdStr>>)
       \o NumField(item, "bandwidthLimit", "pskz_project_bw_limit_gb", <<projectIdStr>>)

processProjectsInfo(projectsData) ==
  LET pagination == Walk(projectsData, <<"data", "account", "services", "pagination">>) IN
  IF ~IsObj(pagination) THEN Done(<<>>)
  ELSE IF ~IsArr(Get(pagination, "items")) THEN Done(<<>>)
  ELSE Done(FlatMap(ProjectItemWrites, Get(pagination, "items").a))

InvoiceItemWrites(item) ==
  IF ~IsObj(item) THEN <<>>
  ELSE IF ~IsNum(Get(item, "id")) THEN <<>>
  ELSE NumField(item, "total", "pskz_invoice_amount", <<ToString(Get(item, "id").n)>>)

processInvoicesInfo(invoicesData) ==
  LET invoice == Walk(invoicesData, <<"data", "account", "invoice">>) IN
  IF ~IsObj(invoice) THEN Done(<<>>)
  ELSE LET counters == Get(invoice, "counters")
           pagination == Get(invoice, "pagination")
       IN Done((IF IsObj(counters)
                THEN NumField(counters, "total", "pskz_invoice_counters", <<"total">>)
                  \o NumField(counters, "unpaid", "pskz_invoice_counters", <<"unpaid">>)
                  \o NumField(counters, "paid", "pskz_invoice_counters", <<"paid">>)
                  \o NumField(counters, "cancelled", "pskz_invoice_counters", <<"cancelled">>)
                ELSE <<>>)
            \o (IF IsObj(pagination) /\ IsArr(Get(pagination, "items"))
                THEN FlatMap(InvoiceItemWrites, Get(pagination, "items").a)
                ELSE <<>>))

ServerItemWrites(item, serviceType) ==
  IF ~IsObj(item) THEN <<>>
  ELSE IF ~IsStr(Get(item, "instanceName")) THEN <<>>
  ELSE LET instanceName == Get(item, "instanceName").s
           status == Get(item, "status")
           ips == Get(item, "floatingIpsArray")
       IN NumField(item, "ram", "pskz_server_ram_mb", <<serviceType, instanceName>>)
       \o NumField(item, "cores", "pskz_server_cores", <<serviceType, instanceName>>)
       \o (IF IsStr(status)
           THEN <<Sample("pskz_server_status", <<serviceType, instanceName, status.s>>,
                         IF status.s = "ACTIVE" THEN 1 ELSE 0)>>
           ELSE <<>>)
       \o (IF IsArr(ips)
           THEN <<Sample("pskz_server_ip_count", <<serviceType, instanceName>>, Len(ips.a))>>
           ELSE <<>>)

processServerInfo(serverData, serviceType) ==
  LET pagination == Walk(serverData, <<"data", "vpc", "instance", "pagination">>) IN
  IF ~IsObj(pagination) THEN Done(<<>>)
  ELSE IF ~IsArr(Get(pagination, "items")) THEN Done(<<>>)
  ELSE LET ItemWrites(item) == ServerItemWrites(item, serviceType)
       IN Done(FlatMap(ItemWrites, Get(pagination, "items").a))


\* statusCounts[status]++ over the counted items, then
\* for status, count := range statusCounts { write(status, count) }.
\* statuses is the sequence of status strings counted, one per item.
CountOf(statuses, st) == Cardinality({i \in 1..Len(statuses) : statuses[i] = st})

CloudQuotaWrites(res) ==
  IF ~IsObj(res) THEN <<>>
  ELSE IF ~IsStr(Get(res, "name")) THEN <<>>
  ELSE NumField(res, "used", "pskz_cloud_quota", <<Get(res, "name").s \o "_used">>)
    \o NumField(res, "limit", "pskz_cloud_quota", <<Get(res, "name").s \o "_limit">>)

\* The instanceInfo loop: infoValue.(float64) is an unchecked assertion.
InstanceInfoPanics(instanceInfo) ==
  \E r \in DOMAIN instanceInfo.f :
    /\ IsObj(instanceInfo.f[r])
    /\ \E k \in DOMAIN instanceInfo.f[r].f : ~IsNum(instanceInfo.f[r].f[k])

InstanceInfoWrites(instanceInfo) ==
  LET pairs == {<<r, k>> \in UNION {{<<r2, k2>> : k2 \in
                     (IF IsObj(instanceInfo.f[r2]) THEN DOMAIN instanceInfo.f[r2].f ELSE {})}
                     : r2 \in DOMAIN instanceInfo.f} : TRUE}
      order == SetToSeq(pairs)
  IN [i \in 1..Len(order) |->
        Sample("pskz_cloud_instance_info", <<order[i][1], order[i][2]>>,
               instanceInfo.f[order[i][1]].f[order[i][2]].n)]

processCloudResources(cloudResourcesData) ==
  LET service == Walk(cloudResourcesData, <<"data", "vpc", "service">>) IN
  IF ~IsObj(service) THEN Done(<<>>)
  ELSE LET quotas == Get(service, "quotas")
           summary == Get(service, "summary")
           instanceInfo == Get(service, "instanceInfo")
           before ==
             (IF IsObj(quotas) /\ IsArr(Get(quotas, "resources"))
              THEN FlatMap(CloudQuotaWrites, Get(quotas, "resources").a) ELSE <<>>)
             \o (IF IsObj(summary)
                 THEN NumField(summary, "cpuCores", "pskz_cloud_summary", <<"cpu_cores">>)
                   \o NumField(summary, "ramSizeGb", "pskz_cloud_summary", <<"ram_gb">>)
                   \o NumField(summary, "instancesCount", "pskz_cloud_summary",
                               <<"instances_count">>)
                   \o NumField(summary, "volumesCount", "pskz_cloud_summary",
                               <<"volumes_count">>)
                   \o NumField(summary, "volumesSizeGb", "pskz_cloud_summary",
                               <<"volumes_size_gb">>)
                   \o NumField(summary, "networksCount", "pskz_cloud_summary",
                               <<"networks_count">>)
                   \o NumField(summary, "floatingIpsCount", "pskz_cloud_summary",
                               <<"floating_ips_count">>)
                   \o NumField(summary, "securityGroupsCount", "pskz_cloud_summary",
                               <<"security_groups_count">>)
                   \o NumField(summary, "routersCount", "pskz_cloud_summary",
                               <<"routers_count">>)
                 ELSE <<>>)
       IN IF ~IsObj(instanceInfo) THEN Done(before)
          ELSE IF InstanceInfoPanics(instanceInfo) THEN Panicked(before)
          ELSE Done(before \o InstanceInfoWrites(instanceInfo))

\* The gauge value 0.5 (status PAUSED) is not an integer; sample values are
\* integers in this model, and -2 stands for it: no other write uses -2.
PausedValue == 0 - 2

RECURSIVE VolumeSizeSum(_)
VolumeSizeSum(vols) ==
  IF vols = <<>> THEN 0
  ELSE (IF IsObj(Head(vols)) /\ IsNum(Get(Head(vols), "volumeSize"))
        THEN Get(Head(vols), "volumeSize").n ELSE 0) + VolumeSizeSum(Tail(vols))

CloudInstanceWrites(item) ==
  IF ~IsObj(item) THEN <<>>
  ELSE IF ~IsStr(Get(item, "instanceName")) THEN <<>>
  ELSE LET instanceName == Get(item, "instanceName").s
           status == Get(item, "status")
           flavorName == Get(item, "flavorName")
           volumesAttached == Get(item, "volumesAttached")
           floatingIps == Get(item, "floatingIpsArray")
       IN (IF IsStr(status)
           THEN <<Sample("pskz_cloud_instance_info", <<instanceName, "status">>,
                         CASE status.s = "ACTIVE" -> 1
                           [] status.s = "SHUTOFF" -> 0
                           [] status.s = "PAUSED" -> PausedValue
                           [] OTHER -> 0 - 1)>>
           ELSE <<>>)
       \o (IF IsStr(flavorName)
           THEN <<Sample("pskz_cloud_instance_info", <<instanceName, "flavor_name">>, 1),
                  Sample("pskz_cloud_instance_info",
                         <<instanceName \o ":" \o flavorName.s, "flavor">>, 1)>>
           ELSE <<>>)
       \o (IF IsArr(volumesAttached)
           THEN <<Sample("pskz_cloud_instance_info", <<instanceName, "volumes_count">>,
                         Len(volumesAttached.a)),
                  Sample("pskz_cloud_instance_info", <<instanceName, "volumes_total_size">>,
                         VolumeSizeSum(volumesAttached.a))>>
           ELSE <<>>)
       \o (IF IsArr(floatingIps)
           THEN <<Sample("pskz_cloud_instance_info", <<instanceName, "floating_ips_count">>,
                         Len(floatingIps.a))>>
           ELSE <<>>)

processCloudInstances(instancesData) ==
  LET pagination == Walk(instancesData, <<"data", "vpc", "instance", "pagination">>) IN
  IF ~IsObj(pagination) THEN Done(<<>>)
  ELSE IF ~IsArr(Get(pagination, "items")) THEN Done(<<>>)
  ELSE Done(FlatMap(CloudInstanceWrites, Get(pagination, "items").a))

\* status, ok := serverInfo["status"].(string); if !ok { status = "UNKNOWN" }
VpsStatusOf(item) == StrOr(item, "status", "UNKNOWN")

VpsServerWrites(item) ==
  IF ~IsObj(item) THEN <<>>
  ELSE LET serverId == IF IsNum(Get(item, "serverId")) THEN Get(item, "serverId").n ELSE 0
           serverName == StrOrEmpty(item, "name")
           serverIdStr == ToString(serverId)
           status == VpsStatusOf(item)
           regionId == StrOrEmpty(item, "regionId")
           tariff == Get(item, "tariff")
       IN <<Sample("pskz_vps_server_status", <<serverIdStr, serverName, status>>,
                   IF status = "ACTIVE" THEN 1 ELSE 0)>>
       \o (IF IsObj(tariff)
           THEN NumField(tariff, "ramGb", "pskz_vps_server_ram_mb",
                         <<serverIdStr, serverName, regionId>>)
             \o NumField(tariff, "cores", "pskz_vps_server_cores",
                         <<serverIdStr, serverName, regionId>>)
           ELSE <<>>)

processVpsServersStatus(vpsData) ==
  LET pagination == Walk(vpsData, <<"data", "vps", "server", "pagination">>) IN
  IF ~IsObj(pagination) THEN Done(<<>>)
  ELSE IF ~IsArr(Get(pagination, "items")) THEN Done(<<>>)
  ELSE LET items == Get(pagination, "items").a
           counted == SelectSeq(items, IsObj)
           statuses == [i \in 1..Len(counted) |-> VpsStatusOf(counted[i])]
           order == SetToSeq(SeqRange(statuses))
       IN Done(FlatMap(VpsServerWrites, items)
            \o [i \in 1..Len(order) |->
                  Sample("pskz_vps_server_status", <<"all", "total", order[i]>>,
                         CountOf(statuses, order[i]))])


\* A cluster item is walked (and counted) when it is an object with a string _id.
ClusterWalked(item) == IsObj(item) /\ IsStr(Get(item, "_id"))

\* A classification that takes only a created cluster for healthy.
K8sHealthy_CreateOnly(status) == status = "CREATE_COMPLETE"

\* status == "CREATE_COMPLETE" || status == "UPDATE_COMPLETE"
K8sHealthy(status) == status = "CREATE_COMPLETE" \/ status = "UPDATE_COMPLETE"

NodeGroupWrites(ng, clusterId, name) ==
  IF ~IsObj(ng) THEN <<>>
  ELSE IF ~IsStr(Get(ng, "_id")) THEN <<>>
  ELSE LET nodeGroupId == Get(ng, "_id").s
           nodeGroupName == StrOrEmpty(ng, "name")
           nodeGroupStatus == StrOrEmpty(ng, "status")
           flavorDetailed == Get(ng, "flavorDetailed")
           l4 == <<clusterId, name, nodeGroupId, nodeGroupName>>
       IN <<Sample("pskz_k8s_nodegroup_status",
                   <<clusterId, name, nodeGroupId, nodeGroupName, nodeGroupStatus>>,
                   IF K8sHealthy(nodeGroupStatus) THEN 1 ELSE 0)>>
       \o NumField(ng, "nodeCount", "pskz_k8s_nodegroup_nodes", l4)
       \o (IF IsObj(flavorDetailed)
           THEN NumField(flavorDetailed, "vcpus", "pskz_k8s_nodegroup_cores", l4)
             \o NumField(flavorDetailed, "ram", "pskz_k8s_nodegroup_ram_mb", l4)
           ELSE <<>>)

ClusterWrites(item) ==
  IF ~ClusterWalked(item) THEN <<>>
  ELSE LET clusterId == Get(item, "_id").s
           name == StrOr(item, "name", "unknown")
           status == StrOr(item, "status", "unknown")
           projectId == IF IsNum(Get(item, "projectId"))
                        THEN ToString(Get(item, "projectId").n) ELSE ""
           endpointId == StrOrEmpty(item, "endpointId")
           regionId == StrOrEmpty(item, "regionId")
           template == Get(item, "clusterTemplate")
           templateName == IF IsObj(template) THEN StrOr(template, "name", "unknown")
                           ELSE "unknown"
           nodeGroups == Get(item, "clusterNodeGroups")
           NgWrites(ng) == NodeGroupWrites(ng, clusterId, name)
       IN <<Sample("pskz_k8s_cluster_status",
                   <<clusterId, name, status, endpointId, regionId, projectId, templateName>>,
                   IF K8sHealthy(status) THEN 1 ELSE 0)>>
       \o NumField(item, "nodeCount", "pskz_k8s_cluster_nodes", <<clusterId, name>>)
       \o NumField(item, "masterCount", "pskz_k8s_cluster_masters", <<clusterId, name>>)
       \o (IF IsArr(nodeGroups) THEN FlatMap(NgWrites, nodeGroups.a) ELSE <<>>)

processK8SClusters(k8sClustersData) ==
  LET pagination == Walk(k8sClustersData, <<"data", "k8saas", "cluster", "pagination">>) IN
  IF ~IsObj(pagination) THEN Done(<<>>)
  ELSE LET total == NumField(pagination, "count", "pskz_k8s_cluster_count", <<"total">>) IN
    IF ~IsArr(Get(pagination, "items")) THEN Done(total)
    ELSE LET items == Get(pagination, "items").a
             counted == SelectSeq(items, ClusterWalked)
             statuses == [i \in 1..Len(counted) |-> StrOr(counted[i], "status", "unknown")]
             order == SetToSeq(SeqRange(statuses))
         IN Done(total
              \o FlatMap(ClusterWrites, items)
              \o [i \in 1..Len(order) |->
                    Sample("pskz_k8s_cluster_count", <<order[i]>>,
                           CountOf(statuses, order[i]))])

LbWalked(item) == IsObj(item) /\ IsStr(Get(item, "_id"))

LbWrites(lb) ==
  IF ~LbWalked(lb) THEN <<>>
  ELSE LET id == Get(lb, "_id").s
           name == StrOr(lb, "name", "unknown")
           regionID == StrOr(lb, "regionId", "unknown")
           vipAddress == StrOr(lb, "vipAddress", "unknown")
           status == StrOr(lb, "provisioningStatus", "unknown")
           cluster == Get(lb, "cluster")
           clusterName == IF IsObj(cluster) THEN StrOr(cluster, "name", "unknown")
                          ELSE "unknown"
           floatingIP == StrOrEmpty(lb, "floatingIpAddress")
           flavorName == Get(lb, "flavorName")
           listeners == Get(lb, "listeners")
           pools == Get(lb, "pools")
           members == Get(lb, "members")
       IN <<Sample("pskz_lbaas_loadbalancer_status",
                   <<id, name, regionID, clusterName, status, vipAddress, floatingIP>>,
                   IF status = "ACTIVE" THEN 1 ELSE 0)>>
       \o (IF IsStr(flavorName) /\ flavorName.s # ""
           THEN <<Sample("pskz_lbaas_flavor", <<id, name, flavorName.s>>, 1)>> ELSE <<>>)
       \o <<Sample("pskz_lbaas_floating_ip", <<id, name>>,
                   IF floatingIP # "" THEN 1 ELSE 0)>>
       \o (IF IsArr(listeners)
           THEN <<Sample("pskz_lbaas_listeners_count", <<id, name>>, Len(listeners.a))>>
           ELSE <<>>)
       \o (IF IsArr(pools)
           THEN <<Sample("pskz_lbaas_pools_count", <<id, name>>, Len(pools.a))>>
           ELSE <<>>)
       \o (IF IsArr(members)
           THEN <<Sample("pskz_lbaas_members_count", <<id, name>>, Len(members.a))>>
           ELSE <<>>)

processLBaaSData(lbaasData) ==
  LET pagination == Walk(lbaasData, <<"data", "lbaas", "loadBalancer", "pagination">>) IN
  IF ~IsObj(pagination) THEN Done(<<>>)
  ELSE LET total == NumField(pagination, "count", "pskz_lbaas_loadbalancer_count",
                             <<"total">>) IN
    IF ~IsArr(Get(pagination, "items")) THEN Done(total)
    ELSE LET items == Get(pagination, "items").a
             counted == SelectSeq(items, LbWalked)
             statuses == [i \in 1..Len(counted) |->
                            StrOr(counted[i], "provisioningStatus", "unknown")]
             order == SetToSeq(SeqRange(statuses))
         IN Done(total
              \o FlatMap(LbWrites, items)
              \o [i \in 1..Len(order) |->
                    Sample("pskz_lbaas_loadbalancer_count", <<order[i]>>,
                           CountOf(statuses, order[i]))])

\* processK8SProjects builds const metrics and sends them straight to ch;
\* the result is the sequence of samples sent.
\* A quota entry that yields its limit sample only.
QuotaSends_OnlyLimit(q, serviceName, regionId, projectId, projectName) ==
  IF ~IsObj(q) THEN <<>>
  ELSE IF ~IsStr(Get(q, "key")) THEN <<>>
  ELSE NumField(q, "limit",
                "pskz_k8s_project_quota_" \o serviceName \o "_" \o Get(q, "key").s \o "_limit",
                <<projectId, projectName, regionId>>)

QuotaSends(q, serviceName, regionId, projectId, projectName) ==
  IF ~IsObj(q) THEN <<>>
  ELSE IF ~IsStr(Get(q, "key")) THEN <<>>
  ELSE LET key == Get(q, "key").s
           l == <<projectId, projectName, regionId>>
       IN NumField(q, "limit",
                   "pskz_k8s_project_quota_" \o serviceName \o "_" \o key \o "_limit", l)
       \o NumField(q, "inUse",
                   "pskz_k8s_project_quota_" \o serviceName \o "_" \o key \o "_used", l)

ServiceSends(service, projectId, projectName) ==
  IF ~IsObj(service) THEN <<>>
  ELSE LET serviceName == StrOrEmpty(service, "name")
           regionId == StrOrEmpty(service, "regionId")
           quota == Get(service, "quota")
           QSends(q) == QuotaSends(q, serviceName, regionId, projectId, projectName)
       IN IF IsArr(quota) THEN FlatMap(QSends, quota.a) ELSE <<>>

K8sProjectIdOf(item) ==
  IF IsStr(Get(item, "projectId")) THEN Get(item, "projectId").s
  ELSE IF IsNum(Get(item, "projectId")) THEN ToString(Get(item, "projectId").n)
  ELSE "unknown"

K8sProjectSends(item) ==
  IF ~IsObj(item) THEN <<>>
  ELSE LET projectId == K8sProjectIdOf(item)
           pname == Get(item, "projectName")
           projectName == IF IsStr(pname) /\ pname.s # "" THEN pname.s ELSE projectId
           services == Get(item, "openstackServices")
           SSends(service) == ServiceSends(service, projectId, projectName)
       IN IF IsArr(services) THEN FlatMap(SSends, services.a) ELSE <<>>

processK8SProjects(k8sProjectsData) ==
  LET pagination == Walk(k8sProjectsData, <<"data", "k8saas", "project", "pagination">>) IN
  IF ~IsObj(pagination) THEN Done(<<>>)
  ELSE IF ~IsArr(Get(pagination, "items")) THEN Done(<<>>)
  ELSE LET items == Get(pagination, "items").a
           counted == SelectSeq(items, IsObj)
           statuses == SelectSeq([i \in 1..Len(counted) |-> StrOrEmpty(counted[i], "status")],
                                 LAMBDA st : st # "")
           types == SelectSeq([i \in 1..Len(counted) |-> StrOrEmpty(counted[i], "type")],
                              LAMBDA ty : ty # "")
           sorder == SetToSeq(SeqRange(statuses))
           torder == SetToSeq(SeqRange(types))
       IN Done(FlatMap(K8sProjectSends, items)
            \o [i \in 1..Len(sorder) |->
                  Sample("pskz_k8s_project_status_count", <<sorder[i]>>,
                         CountOf(statuses, sorder[i]))]
            \o [i \in 1..Len(torder) |->
                  Sample("pskz_k8s_project_type_count", <<torder[i]>>,
                         CountOf(types, torder[i]))])


\* ------------------------------------------------------------ the client
\* The outcome of executeQuery: an error (transport failure, non-200 status,
\* GraphQL error), or the value decoded from the response's data field
\* (Absent for a null data field).
QueryErr == [err |-> TRUE, doc |-> Absent]
QueryOk(doc) == [err |-> FALSE, doc |-> doc]

\* json.Unmarshal into a typed struct field: a missing key leaves the zero
\* value, a value of another JSON kind is an error.
FitsNum(obj, key) == Get(obj, key) = Absent \/ IsNum(Get(obj, key))
FitsStr(obj, key) == Get(obj, key) = Absent \/ IsStr(Get(obj, key))
FitsObj(obj, key) == Get(obj, key) = Absent \/ IsObj(Get(obj, key))
NumOrZero(j, key) == IF IsObj(j) /\ IsNum(Get(j, key)) THEN Get(j, key).n ELSE 0
Sub(j, key) == IF IsObj(j) THEN Get(j, key) ELSE Absent

\* Whether the anonymous response struct of GetBalance decodes from doc.
BalanceDecodes(doc) ==
  LET data == Sub(doc, "data")
      account == Sub(data, "account")
      current == Sub(account, "current")
      info == Sub(current, "info")
      credit == Sub(info, "credit")
  IN /\ doc = Absent \/ (IsObj(doc) /\ FitsObj(doc, "data"))
     /\ IsObj(data) => FitsObj(data, "account")
     /\ IsObj(account) => FitsObj(account, "current")
     /\ IsObj(current) => FitsObj(current, "info")
     /\ IsObj(info) => /\ FitsNum(info, "balance") /\ FitsNum(info, "bonuses")
                       /\ FitsNum(info, "blocked") /\ FitsObj(info, "credit")
     /\ IsObj(credit) => /\ FitsNum(credit, "availableCredit") /\ FitsNum(credit, "credit")
                         /\ FitsNum(credit, "maxCredit") /\ FitsStr(credit, "mustPaidTill")

\* A map[string]interface{} result decodes from an object or from null.
MapDecodes(doc) == doc = Absent \/ IsObj(doc)

GetAccountBalance(q) ==
  IF q.err \/ ~MapDecodes(q.doc) THEN QueryErr ELSE QueryOk(q.doc)

GetBalance(q) ==
  IF q.err \/ ~BalanceDecodes(q.doc) THEN [err |-> TRUE, Prepay |-> 0, Credit |-> 0, Debt |-> 0]
  ELSE LET info == Sub(Sub(Sub(Sub(q.doc, "data"), "account"), "current"), "info") IN
       [err |-> FALSE,
        Prepay |-> NumOrZero(info, "balance"),
        Credit |-> NumOrZero(Sub(info, "credit"), "credit"),
        Debt |-> 0]

\* GetDomains authenticates with GetAccountBalance and returns an empty list.
GetDomains(q) ==
  IF GetAccountBalance(q).err THEN [err |-> TRUE, Items |-> <<>>]
  ELSE [err |-> FALSE, Items |-> <<>>]

DomainCountersStub ==
  Obj([data |-> Obj([account |-> Obj([domains |-> Obj([stats |->
    Obj([total |-> Num(0), active |-> Num(0), expired |-> Num(0), pending |-> Num(0)])])])])])

GetDomainCounters == QueryOk(DomainCountersStub)

ProjectsStub ==
  Obj([data |-> Obj([account |-> Obj([services |-> Obj([pagination |->
    Obj([items |-> Arr(<<>>), count |-> Num(0)])])])])])

GetProjects == QueryOk(ProjectsStub)

GetInvoices(q) ==
  IF q.err \/ ~MapDecodes(q.doc) THEN QueryErr ELSE QueryOk(q.doc)

CloudResourcesStub ==
  Obj([data |-> Obj([vpc |-> Obj([service |-> Obj([
    quotas |-> Obj([resources |-> Arr(<<>>)]),
    summary |-> Obj([cpuCores |-> Num(0), ramSizeGb |-> Num(0), instancesCount |-> Num(0),
                     volumesCount |-> Num(0), volumesSizeGb |-> Num(0),
                     networksCount |-> Num(0), floatingIpsCount |-> Num(0),
                     securityGroupsCount |-> Num(0), routersCount |-> Num(0)])])])])])

GetCloudResources == QueryOk(CloudResourcesStub)

CloudInstancesStub ==
  Obj([data |-> Obj([vpc |-> Obj([instance |-> Obj([pagination |->
    Obj([items |-> Arr(<<>>)])])])])])

GetCloudInstances == QueryOk(CloudInstancesStub)

VpsStatusStub ==
  Obj([data |-> Obj([vps |-> Obj([server |-> Obj([pagination |->
    Obj([items |-> Arr(<<>>), count |-> Num(0)])])])])])

\* A GetVpsServersStatus that returns the query's error instead of the stub.
GetVpsServersStatus_ReturnsError(q) ==
  IF q.err \/ ~MapDecodes(q.doc) THEN QueryErr ELSE QueryOk(q.doc)

\* err == nil && result != nil, else the stub; the error is never returned.
GetVpsServersStatus(q) ==
  IF ~q.err /\ IsObj(q.doc) THEN QueryOk(q.doc) ELSE QueryOk(VpsStatusStub)

GetCloudServers(q) ==
  IF q.err \/ ~MapDecodes(q.doc) THEN QueryErr ELSE QueryOk(q.doc)

GetVPSServers(q) ==
  IF q.err \/ ~MapDecodes(q.doc) THEN QueryErr ELSE QueryOk(q.doc)

K8SClustersStub ==
  Obj([data |-> Obj([k8saas |-> Obj([cluster |-> Obj([pagination |->
    Obj([count |-> Num(0), items |-> Arr(<<>>)])])])])])

\* A GetK8SClusters that returns the query's error instead of the stub.
GetK8SClusters_ReturnsError(q) ==
  IF q.err \/ ~MapDecodes(q.doc) THEN QueryErr ELSE QueryOk(q.doc)

GetK8SClusters(q) ==
  IF ~q.err /\ IsObj(q.doc) THEN QueryOk(q.doc) ELSE QueryOk(K8SClustersStub)

K8SProjectsStub ==
  Obj([data |-> Obj([k8saas |-> Obj([project |-> Obj([pagination |->
    Obj([items |-> Arr(<<>>), count |-> Num(0)])])])])])

GetK8SProjects(q) ==
  IF ~q.err /\ IsObj(q.doc) THEN QueryOk(q.doc) ELSE QueryOk(K8SProjectsStub)

LBaaSStub ==
  Obj([data |-> Obj([lbaas |-> Obj([loadBalancer |-> Obj([pagination |->
    Obj([count |-> Num(0), items |-> Arr(<<>>)])])])])])

GetLBaaSLoadBalancers == QueryOk(LBaaSStub)


\* ------------------------------------------------- the metric catalogue
\* Number of label names each GaugeVec is constructed with in New.
LabelArity ==
  [pskz_last_scrape_error |-> 1,
   pskz_prepay_balance |-> 1, pskz_credit_balance |-> 1, pskz_debt_balance |-> 1,
   pskz_bonus_balance |-> 1, pskz_blocked_balance |-> 1,
   pskz_domain_expiry_days |-> 1, pskz_domain_status |-> 2, pskz_domain_counters |-> 1,
   pskz_project_amount |-> 1, pskz_project_disk_usage_gb |-> 1,
   pskz_project_disk_limit_gb |-> 1, pskz_project_bw_usage_gb |-> 1,
   pskz_project_bw_limit_gb |-> 1,
   pskz_server_ram_mb |-> 2, pskz_server_cores |-> 2, pskz_server_status |-> 3,
   pskz_server_ip_count |-> 2,
   pskz_invoice_counters |-> 1, pskz_invoice_amount |-> 1,
   pskz_cloud_quota |-> 1, pskz_cloud_summary |-> 1, pskz_cloud_instance_info |-> 2,
   pskz_vps_server_status |-> 2, pskz_vps_server_ram_mb |-> 1, pskz_vps_server_cores |-> 1,
   pskz_vps_server_disk_gb |-> 1, pskz_vps_server_backup_gb |-> 1,
   pskz_vps_server_ips_protect |-> 1, pskz_vps_server_amount |-> 1,
   pskz_k8s_cluster_count |-> 1, pskz_k8s_cluster_status |-> 7,
   pskz_k8s_cluster_nodes |-> 2, pskz_k8s_cluster_masters |-> 2,
   pskz_k8s_nodegroup_status |-> 5, pskz_k8s_nodegroup_nodes |-> 4,
   pskz_k8s_nodegroup_cores |-> 4, pskz_k8s_nodegroup_ram_mb |-> 4,
   pskz_lbaas_loadbalancer_count |-> 1, pskz_lbaas_loadbalancer_status |-> 7,
   pskz_lbaas_listeners_count |-> 2, pskz_lbaas_pools_count |-> 2,
   pskz_lbaas_members_count |-> 2, pskz_lbaas_flavor |-> 3, pskz_lbaas_floating_ip |-> 2]

DurationName == "pskz_scrape_duration_seconds"
SuccessName == "pskz_scrape_success"
LastErrorName == "pskz_last_scrape_error"
SelfNames == {DurationName, SuccessName, LastErrorName}

\* A reset block that forgets the invoice vectors.
ResetNames_KeepInvoices ==
  DOMAIN LabelArity \ {LastErrorName, "pskz_invoice_counters", "pskz_invoice_amount"}

\* The vectors Collect resets at its start: every GaugeVec but last_scrape_error.
ResetNames == DOMAIN LabelArity \ {LastErrorName}

\* The vectors the final block of Collect sends to ch, besides the two gauges.
FinalNames == DOMAIN LabelArity

\* A Reset that clears nothing.
ResetVecs_Noop(vec, names) == vec

\* vec.Reset() for each vector named in names.
ResetVecs(vec, names) == {s \in vec : s.m \notin names}

\* vec.Collect(ch) for each metric named in names.
CollectVecs(vec, names) == SetToBag({s \in vec : s.m \in names})

\* WithLabelValues panics when the number of values differs from the arity.
ArityOk(w) == Len(w.l) = LabelArity[w.m]

\* Index of the first write that panics, 0 if none does.
FirstBad(ws) ==
  IF \A i \in 1..Len(ws) : ArityOk(ws[i]) THEN 0
  ELSE CHOOSE i \in 1..Len(ws) : ~ArityOk(ws[i]) /\ \A j \in 1..(i - 1) : ArityOk(ws[j])

\* Running a processor against the vectors: its writes up to the first panic.
Run(r) ==
  IF FirstBad(r.ws) = 0 THEN r
  ELSE Panicked(SubSeq(r.ws, 1, FirstBad(r.ws) - 1))

ErrSample(errType, v) == Sample(LastErrorName, <<errType>>, v)


\* ------------------------------------------- what the backend may answer
\* Each query either fails or answers with one of a few documents.  The
\* documents are the decoded content of the GraphQL data field, here in the
\* shape the processors navigate: the root nested under a further "data"
\* key.
Nested(doc) == Obj([data |-> doc])

AccountInfo(balance, bonuses) ==
  Obj([account |-> Obj([current |-> Obj([info |->
    Obj([balance |-> Num(balance), bonuses |-> Num(bonuses),
         credit |-> Obj([credit |-> Num(3)])])])])])

AccountDocs == {Nested(AccountInfo(5, 1))}

InvoiceDoc(id, total) ==
  Obj([account |-> Obj([invoice |-> Obj([
    counters |-> Obj([total |-> Num(2), unpaid |-> Num(1)]),
    pagination |-> Obj([items |-> Arr(<<Obj([id |-> Num(id), total |-> Num(total)])>>),
                        count |-> Num(1)])])])])

InvoiceDocs == {Nested(InvoiceDoc(7, 30)), Nested(InvoiceDoc(8, 30))}

VpsServer(id, status) ==
  Obj([serverId |-> Num(id), name |-> Str("vps-a"), status |-> Str(status),
       regionId |-> Str("r1"), tariff |-> Obj([ramGb |-> Num(2), cores |-> Num(1)])])

VpsStatusDoc(items) ==
  Obj([vps |-> Obj([server |-> Obj([pagination |->
    Obj([items |-> Arr(items), count |-> Num(Len(items))])])])])

VpsStatusDocs == {Nested(VpsStatusDoc(<<>>)),
                  Nested(VpsStatusDoc(<<VpsServer(1, "ACTIVE")>>))}

ServerDoc(name) ==
  Obj([vpc |-> Obj([instance |-> Obj([pagination |-> Obj([items |->
    Arr(<<Obj([instanceName |-> Str(name), ram |-> Num(2), cores |-> Num(1),
               status |-> Str("ACTIVE"), floatingIpsArray |-> Arr(<<Str("10.0.0.1")>>)])>>)])])])])

ServerDocs == {Nested(ServerDoc("web"))}

NodeGroup(id) ==
  Obj([_id |-> Str(id), name |-> Str("pool"), nodeCount |-> Num(3),
       status |-> Str("CREATE_COMPLETE"),
       flavorDetailed |-> Obj([vcpus |-> Num(2), ram |-> Num(4096)])])

Cluster(id, status) ==
  Obj([_id |-> Str(id), name |-> Str("prod"), status |-> Str(status),
       projectId |-> Num(42), endpointId |-> Str("e1"), regionId |-> Str("r1"),
       nodeCount |-> Num(3), masterCount |-> Num(1),
       clusterTemplate |-> Obj([name |-> Str("v1.29")]),
       clusterNodeGroups |-> Arr(<<NodeGroup("ng1")>>)])

ClustersDoc(items) ==
  Obj([k8saas |-> Obj([cluster |-> Obj([pagination |->
    Obj([count |-> Num(Len(items)), items |-> Arr(items)])])])])

K8sClusterDocs == {Nested(ClustersDoc(<<Cluster("c1", "CREATE_COMPLETE")>>)),
                   Nested(ClustersDoc(<<Cluster("c2", "CREATE_FAILED")>>))}

K8sProject(id) ==
  Obj([projectId |-> Str(id), projectName |-> Str("main"), status |-> Str("active"),
       type |-> Str("k8s"),
       openstackServices |-> Arr(<<Obj([name |-> Str("compute"), regionId |-> Str("r1"),
         quota |-> Arr(<<Obj([key |-> Str("ram"), limit |-> Num(100),
                              inUse |-> Num(40)])>>)])>>)])

K8sProjectsDoc(items) ==
  Obj([k8saas |-> Obj([project |-> Obj([pagination |->
    Obj([items |-> Arr(items), count |-> Num(Len(items))])])])])

K8sProjectDocs == {Nested(K8sProjectsDoc(<<K8sProject("p1")>>))}

\* The outcomes of one executeQuery call answering from docs.
Outcomes(docs) == {QueryErr} \cup {QueryOk(d) : d \in docs}

\* The exporter is built with or without a service ID.
ServiceIDs == {"", "svc-1"}


\* ---------------------------------------------------------------- state
VARIABLES
  serviceID,   \* Exporter.serviceID, fixed by New
  mutex,       \* Exporter.mutex: 0 when free, else the Collect call holding it
  vec,         \* the samples held by the exporter's gauges and gauge vectors
  pc,          \* where each Collect call stands
  ch,          \* the samples each Collect call has sent to its channel
  crashed,     \* a panic left Collect: the process is gone
  attempted,   \* per call: the sources whose client call was made
  failed,      \* per call: the sources whose client call returned an error
  qfailed,     \* per call: the sources whose executeQuery failed
  written,     \* per call: the sample keys set during the call
  before,      \* per call: the tracked keys the vectors held when the call began
  procName,    \* the function applied on its own, "" when none is
  procIn,      \* the input it is applied to
  procOut,     \* what it returned, NotRun before it has
  plan,        \* the outcome each source's query had in the cycle to be repeated
  round,       \* 0: an earlier cycle, 1: the first of two like cycles, 2: the second
  firstKeys,   \* the (name, labels) pairs the first of the two cycles sent
  lastElapsed  \* the elapsed time measured by the call that returned last, 0 before any

\* The state of the scrape cycle.
cvars == <<serviceID, mutex, vec, pc, ch, crashed, attempted, failed, qfailed, written, before>>
\* A function applied on its own.
pvars == <<procName, procIn, procOut>>
\* The record of a cycle that is repeated, and of the call that returned last.
ivars == <<plan, round, firstKeys, lastElapsed>>
aux == <<pvars, ivars>>
vars == <<cvars, pvars, ivars>>

NotRun == [ws |-> <<>>, panic |-> FALSE, run |-> FALSE]
NoPlan == <<>>

\* The error_type label each source reports under.
ErrType ==
  [extended_balance |-> "extended_balance_fetch_error",
   balance |-> "balance_fetch_error",
   domain_counters |-> "domain_counters_fetch_error",
   domains |-> "domains_fetch_error",
   projects |-> "projects_fetch_error",
   invoices |-> "invoices_fetch_error",
   cloud_resources |-> "cloud_resources_fetch_error",
   cloud_instances |-> "cloud_instances_fetch_error",
   vps_status |-> "vps_servers_fetch_error",
   vpc_servers |-> "vpc_servers_fetch_error",
   vps_servers |-> "vps_servers_fetch_error",
   k8s_clusters |-> "k8s_clusters_fetch_error",
   k8s_projects |-> "k8s_projects_fetch_error",
   lbaas |-> "lbaas_loadbalancers_fetch_error"]

Sources == DOMAIN ErrType

\* The backend query the client call of each source posts with executeQuery,
\* "" for a call that posts none.  GetAccountBalance and GetBalance post the
\* same account query, and GetDomains calls GetAccountBalance.
QueryOf ==
  [extended_balance |-> "account_current_info",
   balance |-> "account_current_info",
   domain_counters |-> "",
   domains |-> "account_current_info",
   projects |-> "",
   invoices |-> "account_invoice",
   cloud_resources |-> "",
   cloud_instances |-> "",
   vps_status |-> "vps_server",
   vpc_servers |-> "cloud_vpc_instance",
   vps_servers |-> "vps_vpc_instance",
   k8s_clusters |-> "k8saas_cluster",
   k8s_projects |-> "k8saas_project",
   lbaas |-> ""]

\* The vector whose keys are remembered from the previous cycle.
TrackedNames == {"pskz_invoice_amount"}

\* The exporter as New returns it, with no Collect call under way.
NewExporter ==
  /\ serviceID \in ServiceIDs
  /\ mutex = 0
  /\ vec = {Sample(DurationName, <<>>, 0), Sample(SuccessName, <<>>, 0)}
  /\ pc = [p \in Procs |-> "idle"]
  /\ ch = [p \in Procs |-> EmptyBag]
  /\ crashed = FALSE
  /\ attempted = [p \in Procs |-> {}]
  /\ failed = [p \in Procs |-> {}]
  /\ qfailed = [p \in Procs |-> {}]
  /\ written = [p \in Procs |-> {}]
  /\ before = [p \in Procs |-> {}]

Init ==
  /\ NewExporter
  /\ procName = "" /\ procIn = Absent /\ procOut = NotRun
  /\ plan = NoPlan /\ round = 0 /\ firstKeys = {} /\ lastElapsed = 0

\* A scrape request reaches Collect.
CallStep(p) ==
  /\ ~crashed /\ pc[p] = "idle"
  /\ pc' = [pc EXCEPT ![p] = "lock"]
  /\ UNCHANGED <<serviceID, mutex, vec, ch, crashed, attempted, failed, qfailed, written,
                 before>>

Call(p) == CallStep(p) /\ UNCHANGED aux

\* A Lock that does not wait for the mutex to be free.
Lock_NoWait(p) ==
  /\ ~crashed /\ pc[p] = "lock"
  /\ mutex' = p
  /\ pc' = [pc EXCEPT ![p] = "reset"]
  /\ UNCHANGED <<serviceID, vec, ch, crashed, attempted, failed, qfailed, written, before,
                 aux>>

\* e.mutex.Lock()
Lock(p) ==
  /\ ~crashed /\ pc[p] = "lock"
  /\ mutex = 0
  /\ mutex' = p
  /\ pc' = [pc EXCEPT ![p] = "reset"]
  /\ UNCHANGED <<serviceID, vec, ch, crashed, attempted, failed, qfailed, written, before,
                 aux>>

\* The block of Reset calls.
ResetAll(p) ==
  /\ ~crashed /\ pc[p] = "reset"
  /\ vec' = ResetVecs(vec, ResetNames)
  /\ before' = [before EXCEPT ![p] = Keys({s \in vec : s.m \in TrackedNames})]
  /\ pc' = [pc EXCEPT ![p] = "extended_balance"]
  /\ UNCHANGED <<serviceID, mutex, ch, crashed, attempted, failed, qfailed, written, aux>>

\* A fetch block that, when the client call fails, stays where it is and
\* makes the call again.
FetchAndProcess_Retries(p, src, qerr, r, proc, sent, next) ==
  /\ attempted' = [attempted EXCEPT ![p] = @ \cup {src}]
  /\ qfailed' = [qfailed EXCEPT ![p] = IF qerr THEN @ \cup {src} ELSE @]
  /\ IF r.err
     THEN /\ vec' = SetSample(vec, ErrSample(ErrType[src], 1))
          /\ failed' = [failed EXCEPT ![p] = @ \cup {src}]
          /\ written' = [written EXCEPT ![p] = @ \cup {Key(ErrSample(ErrType[src], 1))}]
          /\ UNCHANGED <<pc, mutex, crashed>>
     ELSE LET out == Run(proc) IN
          /\ vec' = ApplyWrites(SetSample(vec, ErrSample(ErrType[src], 0)), out.ws)
          /\ failed' = failed
          /\ written' = [written EXCEPT ![p] = @ \cup {Key(ErrSample(ErrType[src], 0))}
                                                  \cup Keys(SeqRange(out.ws))
                                                  \cup Keys(SeqRange(sent))]
          /\ pc' = [pc EXCEPT ![p] = IF out.panic THEN "panic" ELSE next]
          /\ crashed' = out.panic
          /\ mutex' = IF out.panic THEN 0 ELSE mutex
  /\ ch' = [ch EXCEPT ![p] = IF r.err THEN @ ELSE @ (+) SeqToBag(sent)]
  /\ UNCHANGED <<serviceID, before>>

\* The common shape of a fetch block:
\*   doc, err := client.GetX(); if err != nil { error gauge = 1 }
\*   else { error gauge = 0; processX(doc) }
\* qerr: whether the underlying query failed; r: what the client call
\* returned; proc: what the processor does with r.doc; sent: what the
\* processor sends to ch itself.
FetchAndProcess(p, src, qerr, r, proc, sent, next) ==
  /\ attempted' = [attempted EXCEPT ![p] = @ \cup {src}]
  /\ qfailed' = [qfailed EXCEPT ![p] = IF qerr THEN @ \cup {src} ELSE @]
  /\ IF r.err
     THEN /\ vec' = SetSample(vec, ErrSample(ErrType[src], 1))
          /\ failed' = [failed EXCEPT ![p] = @ \cup {src}]
          /\ written' = [written EXCEPT ![p] = @ \cup {Key(ErrSample(ErrType[src], 1))}]
          /\ pc' = [pc EXCEPT ![p] = next]
          /\ UNCHANGED <<mutex, crashed>>
     ELSE LET out == Run(proc) IN
          /\ vec' = ApplyWrites(SetSample(vec, ErrSample(ErrType[src], 0)), out.ws)
          /\ failed' = failed
          /\ written' = [written EXCEPT ![p] = @ \cup {Key(ErrSample(ErrType[src], 0))}
                                                  \cup Keys(SeqRange(out.ws))
                                                  \cup Keys(SeqRange(sent))]
          /\ pc' = [pc EXCEPT ![p] = IF out.panic THEN "panic" ELSE next]
          /\ crashed' = out.panic
          /\ mutex' = IF out.panic THEN 0 ELSE mutex
  /\ ch' = [ch EXCEPT ![p] = IF r.err THEN @ ELSE @ (+) SeqToBag(sent)]
  /\ UNCHANGED <<serviceID, before>>

FetchBlock(p, src, qerr, r, proc, next) ==
  FetchAndProcess(p, src, qerr, r, proc, <<>>, next)

FetchExtendedBalanceWith(p, q) ==
  /\ ~crashed /\ pc[p] = "extended_balance"
  /\ FetchBlock(p, "extended_balance", q.err, GetAccountBalance(q),
             processAccountBalanceInfo(GetAccountBalance(q).doc), "balance")

FetchExtendedBalance(p) ==
  /\ \E q \in Outcomes(AccountDocs) : FetchExtendedBalanceWith(p, q)
  /\ UNCHANGED aux


\* An early return of Collect: the error metrics are set and sent, nothing
\* else is fetched.  names: the metrics sent besides the self metrics.
EarlyReturn(p, src, qerr, names) ==
  LET vec1 == SetSample(SetSample(vec, ErrSample(ErrType[src], 1)),
                        Sample(SuccessName, <<>>, 0))
  IN /\ vec' = vec1
     /\ ch' = [ch EXCEPT ![p] = @ (+) CollectVecs(vec1, SelfNames \cup names)]
     /\ attempted' = [attempted EXCEPT ![p] = @ \cup {src}]
     /\ qfailed' = [qfailed EXCEPT ![p] = IF qerr THEN @ \cup {src} ELSE @]
     /\ failed' = [failed EXCEPT ![p] = @ \cup {src}]
     /\ written' = [written EXCEPT ![p] = @ \cup {Key(ErrSample(ErrType[src], 1)),
                                                  Key(Sample(SuccessName, <<>>, 0))}]
     /\ pc' = [pc EXCEPT ![p] = "emitted"]
     /\ UNCHANGED <<serviceID, mutex, crashed, before>>

BalanceWrites(balance) ==
  <<Sample("pskz_prepay_balance", <<"default">>, balance.Prepay),
    Sample("pskz_credit_balance", <<"default">>, balance.Credit),
    Sample("pskz_debt_balance", <<"default">>, balance.Debt)>>

FetchBalanceWith(p, q) ==
  /\ ~crashed /\ pc[p] = "balance"
  /\ IF GetBalance(q).err
     THEN EarlyReturn(p, "balance", q.err, {})
     ELSE FetchBlock(p, "balance", q.err, GetBalance(q), Done(BalanceWrites(GetBalance(q))),
                     "domain_counters")

FetchBalance(p) ==
  /\ \E q \in Outcomes(AccountDocs) : FetchBalanceWith(p, q)
  /\ UNCHANGED aux

FetchDomainCounters(p) ==
  /\ ~crashed /\ pc[p] = "domain_counters"
  /\ FetchBlock(p, "domain_counters", FALSE, GetDomainCounters,
                processDomainCounters(GetDomainCounters.doc), "domains")
  /\ UNCHANGED aux

\* The body of the loop over domains.Data.Domains.Items; ExpiryDate stands
\* for the outcome of time.Parse and the days until that date.
DomainWrites(domain) ==
  IF ~domain.ExpiryDate.valid THEN <<>>
  ELSE <<Sample("pskz_domain_expiry_days", <<domain.Name>>, domain.ExpiryDate.days),
         Sample("pskz_domain_status", <<domain.Name, domain.Status>>,
                CASE domain.Status = "active" -> 1
                  [] domain.Status = "expired" -> 0
                  [] OTHER -> 0 - 1)>>

FetchDomainsWith(p, q) ==
  /\ ~crashed /\ pc[p] = "domains"
  /\ IF GetDomains(q).err
     THEN EarlyReturn(p, "domains", q.err,
                   {"pskz_prepay_balance", "pskz_credit_balance", "pskz_debt_balance"})
     ELSE FetchBlock(p, "domains", q.err, GetDomains(q),
                  Done(FlatMap(DomainWrites, GetDomains(q).Items)), "projects")

FetchDomains(p) ==
  /\ \E q \in Outcomes(AccountDocs) : FetchDomainsWith(p, q)
  /\ UNCHANGED aux

FetchProjects(p) ==
  /\ ~crashed /\ pc[p] = "projects"
  /\ FetchBlock(p, "projects", FALSE, GetProjects, processProjectsInfo(GetProjects.doc),
                "invoices")
  /\ UNCHANGED aux

\* An invoices block after which Collect goes on with the cloud instances.
FetchInvoicesWith_SkipsAhead(p, q) ==
  /\ ~crashed /\ pc[p] = "invoices"
  /\ FetchBlock(p, "invoices", q.err, GetInvoices(q),
             processInvoicesInfo(GetInvoices(q).doc), "cloud_instances")

FetchInvoicesWith(p, q) ==
  /\ ~crashed /\ pc[p] = "invoices"
  /\ FetchBlock(p, "invoices", q.err, GetInvoices(q),
             processInvoicesInfo(GetInvoices(q).doc), "cloud_resources")

FetchInvoices(p) ==
  /\ \E q \in Outcomes(InvoiceDocs) : FetchInvoicesWith(p, q)
  /\ UNCHANGED aux

FetchCloudResources(p) ==
  /\ ~crashed /\ pc[p] = "cloud_resources"
  /\ FetchBlock(p, "cloud_resources", FALSE, GetCloudResources,
                processCloudResources(GetCloudResources.doc), "cloud_instances")
  /\ UNCHANGED aux

FetchCloudInstances(p) ==
  /\ ~crashed /\ pc[p] = "cloud_instances"
  /\ FetchBlock(p, "cloud_instances", FALSE, GetCloudInstances,
                processCloudInstances(GetCloudInstances.doc), "vps_status")
  /\ UNCHANGED aux

FetchVpsServersStatusWith(p, q) ==
  /\ ~crashed /\ pc[p] = "vps_status"
  /\ FetchBlock(p, "vps_status", q.err, GetVpsServersStatus(q),
             processVpsServersStatus(GetVpsServersStatus(q).doc),
             IF serviceID # "" THEN "vpc_servers" ELSE "k8s_clusters")

FetchVpsServersStatus(p) ==
  /\ \E q \in Outcomes(VpsStatusDocs) : FetchVpsServersStatusWith(p, q)
  /\ UNCHANGED aux

FetchVpcServersWith(p, q) ==
  /\ ~crashed /\ pc[p] = "vpc_servers"
  /\ FetchBlock(p, "vpc_servers", q.err, GetCloudServers(q),
             processServerInfo(GetCloudServers(q).doc, "vpc"), "vps_servers")

FetchVpcServers(p) ==
  /\ \E q \in Outcomes(ServerDocs) : FetchVpcServersWith(p, q)
  /\ UNCHANGED aux

FetchVpsServersWith(p, q) ==
  /\ ~crashed /\ pc[p] = "vps_servers"
  /\ FetchBlock(p, "vps_servers", q.err, GetVPSServers(q),
             processServerInfo(GetVPSServers(q).doc, "vps"), "k8s_clusters")

FetchVpsServers(p) ==
  /\ \E q \in Outcomes(ServerDocs) : FetchVpsServersWith(p, q)
  /\ UNCHANGED aux

FetchK8SClustersWith(p, q) ==
  /\ ~crashed /\ pc[p] = "k8s_clusters"
  /\ FetchBlock(p, "k8s_clusters", q.err, GetK8SClusters(q),
             processK8SClusters(GetK8SClusters(q).doc), "k8s_projects")

FetchK8SClusters(p) ==
  /\ \E q \in Outcomes(K8sClusterDocs) : FetchK8SClustersWith(p, q)
  /\ UNCHANGED aux

\* processK8SProjects writes no vector: what it builds goes straight to ch.
FetchK8SProjectsWith(p, q) ==
  /\ ~crashed /\ pc[p] = "k8s_projects"
  /\ FetchAndProcess(p, "k8s_projects", q.err, GetK8SProjects(q), Done(<<>>),
                  processK8SProjects(GetK8SProjects(q).doc).ws, "lbaas")

FetchK8SProjects(p) ==
  /\ \E q \in Outcomes(K8sProjectDocs) : FetchK8SProjectsWith(p, q)
  /\ UNCHANGED aux

FetchLBaaS(p) ==
  /\ ~crashed /\ pc[p] = "lbaas"
  /\ FetchBlock(p, "lbaas", FALSE, GetLBaaSLoadBalancers,
                processLBaaSData(GetLBaaSLoadBalancers.doc), "emit")
  /\ UNCHANGED aux

\* The final block of Collect(ch) calls without scrapeSuccessMetric.Set(1).
EmitAll_NoSet(p) ==
  /\ ~crashed /\ pc[p] = "emit"
  /\ ch' = [ch EXCEPT ![p] = @ (+) CollectVecs(vec, {DurationName, SuccessName}
                                                    \cup FinalNames)]
  /\ pc' = [pc EXCEPT ![p] = "emitted"]
  /\ UNCHANGED <<serviceID, mutex, vec, crashed, attempted, failed, qfailed, written, before,
                 aux>>

\* scrapeSuccessMetric.Set(1) and the final block of Collect(ch) calls.
EmitAll(p) ==
  /\ ~crashed /\ pc[p] = "emit"
  /\ LET vec1 == SetSample(vec, Sample(SuccessName, <<>>, 1))
     IN /\ vec' = vec1
        /\ ch' = [ch EXCEPT ![p] = @ (+) CollectVecs(vec1, {DurationName, SuccessName}
                                                           \cup FinalNames)]
  /\ written' = [written EXCEPT ![p] = @ \cup {Key(Sample(SuccessName, <<>>, 1))}]
  /\ pc' = [pc EXCEPT ![p] = "emitted"]
  /\ UNCHANGED <<serviceID, mutex, crashed, attempted, failed, qfailed, before, aux>>

\* The deferred calls, run when Collect returns: the duration gauge is set
\* to the elapsed time, then the mutex is unlocked.  The registry has
\* drained the channel by then.
\* A return whose deferred function does not set the duration gauge.
ReturnWith_NoSet(p, elapsed) ==
  /\ ~crashed /\ pc[p] = "emitted"
  /\ mutex' = 0
  /\ pc' = [pc EXCEPT ![p] = "idle"]
  /\ ch' = [ch EXCEPT ![p] = EmptyBag]
  /\ attempted' = [attempted EXCEPT ![p] = {}]
  /\ failed' = [failed EXCEPT ![p] = {}]
  /\ qfailed' = [qfailed EXCEPT ![p] = {}]
  /\ written' = [written EXCEPT ![p] = {}]
  /\ before' = [before EXCEPT ![p] = {}]
  /\ UNCHANGED <<serviceID, crashed, vec>>

\* elapsed: time.Since(start), in seconds.
ReturnWith(p, elapsed) ==
  /\ ~crashed /\ pc[p] = "emitted"
  /\ vec' = SetSample(vec, Sample(DurationName, <<>>, elapsed))
  /\ mutex' = 0
  /\ pc' = [pc EXCEPT ![p] = "idle"]
  /\ ch' = [ch EXCEPT ![p] = EmptyBag]
  /\ attempted' = [attempted EXCEPT ![p] = {}]
  /\ failed' = [failed EXCEPT ![p] = {}]
  /\ qfailed' = [qfailed EXCEPT ![p] = {}]
  /\ written' = [written EXCEPT ![p] = {}]
  /\ before' = [before EXCEPT ![p] = {}]
  /\ UNCHANGED <<serviceID, crashed>>

ReturnStep(p) == \E elapsed \in 1..MaxElapsed : ReturnWith(p, elapsed)

Return(p) == ReturnStep(p) /\ UNCHANGED aux

Next ==
  \E p \in Procs :
    \/ Call(p)
    \/ Lock(p)
    \/ ResetAll(p)
    \/ FetchExtendedBalance(p)
    \/ FetchBalance(p)
    \/ FetchDomainCounters(p)
    \/ FetchDomains(p)
    \/ FetchProjects(p)
    \/ FetchInvoices(p)
    \/ FetchCloudResources(p)
    \/ FetchCloudInstances(p)
    \/ FetchVpsServersStatus(p)
    \/ FetchVpcServers(p)
    \/ FetchVpsServers(p)
    \/ FetchK8SClusters(p)
    \/ FetchK8SProjects(p)
    \/ FetchLBaaS(p)
    \/ EmitAll(p)
    \/ Return(p)

Spec == Init /\ [][Next]_vars

\* The steps of a Collect call that holds the mutex.
Step(p) ==
  \/ ResetAll(p)
  \/ FetchExtendedBalance(p)
  \/ FetchBalance(p)
  \/ FetchDomainCounters(p)
  \/ FetchDomains(p)
  \/ FetchProjects(p)
  \/ FetchInvoices(p)
  \/ FetchCloudResources(p)
  \/ FetchCloudInstances(p)
  \/ FetchVpsServersStatus(p)
  \/ FetchVpcServers(p)
  \/ FetchVpsServers(p)
  \/ FetchK8SClusters(p)
  \/ FetchK8SProjects(p)
  \/ FetchLBaaS(p)
  \/ EmitAll(p)
  \/ Return(p)

\* Every backend call returns and the goroutine of a call is scheduled, so
\* a call that holds the mutex takes its next step; sync.Mutex hands the
\* lock to a goroutine that has waited (starvation mode), so a call that
\* finds the mutex free again and again acquires it.  Scrape requests
\* arrive as they please.
\* Step(p) is enabled exactly when the call is past Lock and not yet back
\* (every step moves pc[p]); Lock(p) exactly when it waits and the mutex is
\* free.  With these the two conditions are WF_vars(Step(p)) and
\* SF_vars(Lock(p)) written out.
StepEnabled(p) == ~crashed /\ pc[p] \notin {"idle", "lock", "panic"}
LockEnabled(p) == ~crashed /\ pc[p] = "lock" /\ mutex = 0

Fairness ==
  \A p \in Procs :
    /\ []<>(~StepEnabled(p)) \/ []<><<Step(p)>>_vars
    /\ <>[](~LockEnabled(p)) \/ []<><<Lock(p)>>_vars

LiveSpec == Spec /\ Fairness


\* ------------------------------------------------ calls that are timed
\* The scrape cycle, with the elapsed time each call measures kept on
\* record when the call returns.
ReturnTimed(p) ==
  /\ \E elapsed \in 1..MaxElapsed : ReturnWith(p, elapsed) /\ lastElapsed' = elapsed
  /\ UNCHANGED <<pvars, plan, round, firstKeys>>

TimedNext ==
  \E p \in Procs :
    \/ Call(p)
    \/ Lock(p)
    \/ ResetAll(p)
    \/ FetchExtendedBalance(p)
    \/ FetchBalance(p)
    \/ FetchDomainCounters(p)
    \/ FetchDomains(p)
    \/ FetchProjects(p)
    \/ FetchInvoices(p)
    \/ FetchCloudResources(p)
    \/ FetchCloudInstances(p)
    \/ FetchVpsServersStatus(p)
    \/ FetchVpcServers(p)
    \/ FetchVpsServers(p)
    \/ FetchK8SClusters(p)
    \/ FetchK8SProjects(p)
    \/ FetchLBaaS(p)
    \/ EmitAll(p)
    \/ ReturnTimed(p)

TimedSpec == Init /\ [][TimedNext]_vars


\* ------------------------------------------------ a cycle run twice
\* One scraper calls Collect again and again.  After any number of cycles
\* it runs two more in which every query has the same outcome: the first of
\* the two records the outcome of each query it makes (plan), the second is
\* given the recorded outcomes.
Scraper == CHOOSE p \in Procs : \A q \in Procs : p <= q

RepeatInit ==
  /\ NewExporter
  /\ procName = "" /\ procIn = Absent /\ procOut = NotRun
  /\ plan = NoPlan /\ round = 0 /\ firstKeys = {} /\ lastElapsed = 0

\* The (name, labels) pairs a call has sent, the duration gauge aside.
SentKeys(p) == Keys({s \in BagToSet(ch[p]) : s.m # DurationName})

\* A further earlier cycle starts, or the first of the two like cycles, or,
\* after the first, the second.
RepeatCall ==
  /\ CallStep(Scraper)
  /\ \/ round = 0 /\ round' \in {0, 1}
     \/ round = 1 /\ round' = 2
  /\ UNCHANGED <<pvars, plan, firstKeys, lastElapsed>>

\* The query of source src has outcome q: any in an earlier cycle, recorded
\* in the first of the two like cycles, the recorded one in the second.
Replay(src, q) ==
  /\ round = 2 => src \in DOMAIN plan /\ q = plan[src]
  /\ plan' = IF round = 1 THEN plan @@ (src :> q) ELSE plan
  /\ UNCHANGED <<pvars, round, firstKeys, lastElapsed>>

RepeatFetchExtendedBalance ==
  \E q \in Outcomes(AccountDocs) : FetchExtendedBalanceWith(Scraper, q) /\ Replay("extended_balance", q)

RepeatFetchBalance ==
  \E q \in Outcomes(AccountDocs) : FetchBalanceWith(Scraper, q) /\ Replay("balance", q)

RepeatFetchDomains ==
  \E q \in Outcomes(AccountDocs) : FetchDomainsWith(Scraper, q) /\ Replay("domains", q)

RepeatFetchInvoices ==
  \E q \in Outcomes(InvoiceDocs) : FetchInvoicesWith(Scraper, q) /\ Replay("invoices", q)

RepeatFetchVpsServersStatus ==
  \E q \in Outcomes(VpsStatusDocs) : FetchVpsServersStatusWith(Scraper, q) /\ Replay("vps_status", q)

RepeatFetchVpcServers ==
  \E q \in Outcomes(ServerDocs) : FetchVpcServersWith(Scraper, q) /\ Replay("vpc_servers", q)

RepeatFetchVpsServers ==
  \E q \in Outcomes(ServerDocs) : FetchVpsServersWith(Scraper, q) /\ Replay("vps_servers", q)

RepeatFetchK8SClusters ==
  \E q \in Outcomes(K8sClusterDocs) : FetchK8SClustersWith(Scraper, q) /\ Replay("k8s_clusters", q)

RepeatFetchK8SProjects ==
  \E q \in Outcomes(K8sProjectDocs) : FetchK8SProjectsWith(Scraper, q) /\ Replay("k8s_projects", q)

\* The first of the two like cycles leaves what it sent to compare with.
RepeatReturn ==
  /\ ReturnStep(Scraper)
  /\ firstKeys' = IF round = 1 THEN SentKeys(Scraper) ELSE firstKeys
  /\ UNCHANGED <<pvars, plan, round, lastElapsed>>

RepeatNext ==
  \/ RepeatCall
  \/ Lock(Scraper)
  \/ ResetAll(Scraper)
  \/ RepeatFetchExtendedBalance
  \/ RepeatFetchBalance
  \/ FetchDomainCounters(Scraper)
  \/ RepeatFetchDomains
  \/ FetchProjects(Scraper)
  \/ RepeatFetchInvoices
  \/ FetchCloudResources(Scraper)
  \/ FetchCloudInstances(Scraper)
  \/ RepeatFetchVpsServersStatus
  \/ RepeatFetchVpcServers
  \/ RepeatFetchVpsServers
  \/ RepeatFetchK8SClusters
  \/ RepeatFetchK8SProjects
  \/ FetchLBaaS(Scraper)
  \/ EmitAll(Scraper)
  \/ RepeatReturn

RepeatSpec == RepeatInit /\ [][RepeatNext]_vars


\* ------------------------------------ functions applied on their own
\* The client calls, the processors and the endpoint resolution of
\* executeQuery are functions of their input alone.  Here each is applied
\* once to an input drawn from a set of documents that vary the presence and
\* the kind of the fields the function reads.

\* An object holding the fields of rec that are present.
Fields(rec) == Obj([k \in {k2 \in DOMAIN rec : rec[k2] # Absent} |-> rec[k]])

LbItems ==
  {Fields([_id |-> Str("lb1"), name |-> Str("front"), regionId |-> Str("r1"),
           provisioningStatus |-> st, floatingIpAddress |-> ip, listeners |-> ls]) :
     st \in {Str("ACTIVE"), Str("ERROR"), Absent},
     ip \in {Str("10.0.0.9"), Absent},
     ls \in {Arr(<<Obj([id |-> Str("l1")])>>), Absent}}

LbDoc(items) ==
  Obj([lbaas |-> Obj([loadBalancer |-> Obj([pagination |->
    Obj([count |-> Num(Len(items)), items |-> Arr(items)])])])])

LbDocs == {Nested(LbDoc(<<lb>>)) : lb \in LbItems}

ClusterItems ==
  {Fields([_id |-> Str("c1"), name |-> Str("prod"), status |-> st, regionId |-> Str("r1"),
           nodeCount |-> nc, masterCount |-> mc]) :
     st \in {Str("CREATE_COMPLETE"), Str("UPDATE_COMPLETE"), Str("CREATE_FAILED"), Absent},
     nc \in {Num(3), Str("3"), Absent},
     mc \in {Num(1), Absent}}

\* One cluster, or that cluster followed by a second one; a cluster whose
\* node group is not in a complete state.
ClusterInputDocs ==
  {Nested(ClustersDoc(<<c>>)) : c \in ClusterItems}
  \cup {Nested(ClustersDoc(<<c, Cluster("c2", "CREATE_FAILED")>>)) : c \in ClusterItems}
  \cup {Nested(ClustersDoc(<<Fields([_id |-> Str("c3"), name |-> Str("lab"),
          status |-> Str("UPDATE_COMPLETE"),
          clusterNodeGroups |-> Arr(<<Fields([_id |-> Str("ng2"), name |-> Str("pool"),
                                              status |-> ngst, nodeCount |-> Num(2)])>>)])>>)) :
        ngst \in {Str("UPDATE_COMPLETE"), Str("DELETE_IN_PROGRESS"), Absent}}

QuotaEntries ==
  {Fields([key |-> k, limit |-> l, inUse |-> u]) :
     k \in {Str("ram"), Str("cores"), Absent},
     l \in {Num(100), Str("100"), Absent},
     u \in {Num(40), Absent}}

\* A project with one service holding the one quota entry.
QuotaProject(entry) ==
  Obj([projectId |-> Str("p1"), projectName |-> Str("main"), status |-> Str("active"),
       type |-> Str("k8s"),
       openstackServices |-> Arr(<<Obj([name |-> Str("compute"), regionId |-> Str("r1"),
                                        quota |-> Arr(<<entry>>)])>>)])

QuotaDocs == {Nested(K8sProjectsDoc(<<QuotaProject(e)>>)) : e \in QuotaEntries}

InstanceItems ==
  {Fields([instanceName |-> Str("vm1"), status |-> st]) :
     st \in {Str("ACTIVE"), Str("SHUTOFF"), Str("PAUSED"), Str("ERROR"), Absent}}

InstancesDoc(items) ==
  Obj([vpc |-> Obj([instance |-> Obj([pagination |-> Obj([items |-> Arr(items)])])])])

InstanceDocs == {Nested(InstancesDoc(<<i>>)) : i \in InstanceItems}

ServerItems ==
  {Fields([instanceName |-> Str("web"), status |-> st, ram |-> Num(2)]) :
     st \in {Str("ACTIVE"), Str("STOPPED"), Absent}}

ServerInputs ==
  {[doc |-> Nested(InstancesDoc(<<i>>)), serviceType |-> t] :
     i \in ServerItems, t \in {"vpc", "vps"}}

\* The items of DomainListResponse: ExpiryDate stands for whether the date
\* parses and the days until it.
DomainItems ==
  [Name : {"example.kz"}, Status : {"active", "expired", "pending"},
   ExpiryDate : {[valid |-> TRUE, days |-> 10], [valid |-> FALSE, days |-> 0]}]

\* The domains the account may hold at the backend.
DomainNames == {"example.kz", "shop.kz"}

\* Account documents in which the numbers GetBalance reads are there or not.
BalanceDocs ==
  {Nested(Obj([account |-> Obj([current |-> Obj([info |->
     Fields([balance |-> b, credit |-> c])])])])) :
     b \in {Num(5), Absent},
     c \in {Obj([credit |-> Num(3)]), Obj([maxCredit |-> Num(9)]), Absent}}


CloudResourceDocs ==
  {CloudResourcesStub}
  \cup {Nested(Obj([vpc |-> Obj([service |-> Obj([instanceInfo |->
          Obj([cpu |-> Obj([used |-> v])])])])])) : v \in {Num(1), Str("1")}}

\* A URL is the sequence of pieces that, put end to end, spell it; the first
\* piece is its first byte, which is what executeQuery looks at.
accountGraphQLEndpoint == <<"h", "ttps://console.ps.kz", "/account/graphql">>
cloudGraphQLEndpoint == <<"h", "ttps://console.ps.kz", "/cloud/graphql">>
vpsGraphQLEndpoint == <<"h", "ttps://console.ps.kz", "/vps/graphql">>
k8saasGraphQLEndpoint == <<"h", "ttps://console.ps.kz", "/k8saas/graphql">>

\* The endpoints the client calls pass to executeQuery.
Endpoints ==
  {accountGraphQLEndpoint, cloudGraphQLEndpoint, vpsGraphQLEndpoint, k8saasGraphQLEndpoint}

DefaultBaseURL == <<"h", "ttps://console.ps.kz">>
NoURL == <<>>
\* What -base-url, or PSCLOUD_BASE_URL / baseUrl of the configuration, may be.
BaseURLSettings == {NoURL, <<"h", "ttp://localhost:8080">>, <<"h", "ttps://stage.ps.kz">>}

\* main: the flag wins over the configuration.
OptionBaseURL(flag, cfg) ==
  IF flag # NoURL THEN flag ELSE IF cfg # NoURL THEN cfg ELSE NoURL

\* NewWithOptions: the client's baseURL.
NewWithOptions(option) == IF option # NoURL THEN option ELSE DefaultBaseURL

\* executeQuery: the URL the request is posted to.
finalEndpoint(baseURL, endpoint) ==
  IF Head(endpoint) # "h" THEN baseURL \o endpoint ELSE endpoint

\* strings.HasPrefix on URLs.
HasPrefix(url, prefix) ==
  Len(url) >= Len(prefix) /\ SubSeq(url, 1, Len(prefix)) = prefix

\* Items in which the fields that name the item are there or not.
IdentityLbItems ==
  {Fields([_id |-> i, name |-> n, regionId |-> r, provisioningStatus |-> Str("ACTIVE")]) :
     i \in {Str("lb1"), Absent}, n \in {Str("front"), Absent}, r \in {Str("r1"), Absent}}

IdentityClusterItems ==
  {Fields([_id |-> i, name |-> n, regionId |-> r, endpointId |-> e, projectId |-> Num(42),
           status |-> Str("CREATE_COMPLETE")]) :
     i \in {Str("c1"), Absent}, n \in {Str("prod"), Absent}, r \in {Str("r1"), Absent},
     e \in {Str("e1"), Absent}}

IdentityVpsItems ==
  {Fields([serverId |-> i, name |-> n, status |-> st]) :
     i \in {Num(1), Absent}, n \in {Str("vps-a"), Absent}, st \in {Str("ACTIVE"), Num(1), Absent}}

\* Projects whose status is there, is not a string, or is missing.
StatusProjectItems ==
  {Fields([projectId |-> Str("p1"), projectName |-> Str("main"), status |-> st,
           type |-> Str("k8s")]) : st \in {Str("active"), Num(1), Absent}}

\* One page of a longer list: pagination.count is the length of the whole
\* list, items holds the page.
PagedClusterDocs ==
  {Nested(Obj([k8saas |-> Obj([cluster |-> Obj([pagination |->
     Obj([count |-> Num(5), items |-> Arr(<<Cluster("c1", "CREATE_COMPLETE")>>)])])])]))}

PagedLbDocs ==
  {Nested(Obj([lbaas |-> Obj([loadBalancer |-> Obj([pagination |->
     Obj([count |-> Num(5),
          items |-> Arr(<<Obj([_id |-> Str("lb1"), name |-> Str("front"),
                               provisioningStatus |-> Str("ACTIVE")])>>)])])])]))}

\* Two projects that carry no projectId, each with the same quota entry of
\* the same service; one project whose service lists the same key twice.
RepeatedQuotaDocs ==
  LET entry == Obj([key |-> Str("ram"), limit |-> Num(100), inUse |-> Num(40)])
      Service(quota) == Obj([name |-> Str("compute"), regionId |-> Str("r1"),
                             quota |-> Arr(quota)])
  IN {Nested(K8sProjectsDoc(<<Obj([status |-> Str("active"),
                                   openstackServices |-> Arr(<<Service(<<entry>>)>>)]),
                              Obj([status |-> Str("creating"),
                                   openstackServices |-> Arr(<<Service(<<entry>>)>>)])>>)),
      Nested(K8sProjectsDoc(<<Obj([projectId |-> Str("p1"), projectName |-> Str("main"),
                                   openstackServices |-> Arr(<<Service(<<entry, entry>>)>>)])>>))}

\* Where each processor looks for its pagination object.
ListPath ==
  [processLBaaSData |-> <<"data", "lbaas", "loadBalancer">>,
   processK8SClusters |-> <<"data", "k8saas", "cluster">>,
   processK8SProjects |-> <<"data", "k8saas", "project">>,
   processCloudInstances |-> <<"data", "vpc", "instance">>,
   processServerInfo |-> <<"data", "vpc", "instance">>,
   processVpsServersStatus |-> <<"data", "vps", "server">>,
   processInvoicesInfo |-> <<"data", "account", "invoice">>]

\* The document that holds leaf at the end of path.
RECURSIVE Wrap(_, _)
Wrap(path, leaf) ==
  IF path = <<>> THEN leaf ELSE Obj([k \in {Head(path)} |-> Wrap(Tail(path), leaf)])

\* A pagination object without its list, or with something else in its place.
NoListPaginations ==
  {Obj([count |-> Num(2)]), Obj([count |-> Num(2), items |-> Str("none")]),
   Obj([count |-> Num(2), items |-> Obj([_id |-> Str("c1")])])}

\* Documents of the processor named name whose list container is not a list.
NoListDocs(name) == {Wrap(ListPath[name] \o <<"pagination">>, pg) : pg \in NoListPaginations}

\* Invoice documents with their counters and without their list.
NoListInvoiceDocs ==
  {Wrap(ListPath["processInvoicesInfo"],
        Obj([counters |-> Obj([total |-> Num(2), unpaid |-> Num(1)]), pagination |-> pg])) :
     pg \in NoListPaginations}

\* The inputs each function is applied to.
ProcInputs ==
  [processLBaaSData |-> LbDocs \cup {LBaaSStub} \cup NoListDocs("processLBaaSData")
                          \cup {Nested(LbDoc(<<lb>>)) : lb \in IdentityLbItems}
                          \cup PagedLbDocs,
   processK8SClusters |-> ClusterInputDocs \cup {K8SClustersStub}
                            \cup NoListDocs("processK8SClusters")
                            \cup {Nested(ClustersDoc(<<c>>)) : c \in IdentityClusterItems}
                            \cup PagedClusterDocs,
   processK8SProjects |-> QuotaDocs \cup K8sProjectDocs \cup {K8SProjectsStub}
                            \cup NoListDocs("processK8SProjects")
                            \cup {Nested(K8sProjectsDoc(<<pr>>)) : pr \in StatusProjectItems}
                            \cup RepeatedQuotaDocs,
   processCloudInstances |-> InstanceDocs \cup {CloudInstancesStub}
                               \cup NoListDocs("processCloudInstances"),
   processCloudResources |-> CloudResourceDocs,
   processServerInfo |-> ServerInputs
                           \cup {[doc |-> d, serviceType |-> "vpc"] :
                                   d \in NoListDocs("processServerInfo")},
   processVpsServersStatus |-> VpsStatusDocs \cup {VpsStatusStub}
                                 \cup NoListDocs("processVpsServersStatus")
                                 \cup {Nested(VpsStatusDoc(<<v>>)) : v \in IdentityVpsItems},
   processInvoicesInfo |-> InvoiceDocs \cup NoListInvoiceDocs,
   DomainWrites |-> DomainItems,
   GetBalance |-> Outcomes(BalanceDocs),
   GetDomains |-> [q : Outcomes(AccountDocs), domains : SUBSET DomainNames],
   GetK8SClusters |-> Outcomes(K8sClusterDocs) \cup {QueryOk(Absent)},
   GetK8SProjects |-> Outcomes(K8sProjectDocs) \cup {QueryOk(Absent)},
   GetVpsServersStatus |-> Outcomes(VpsStatusDocs) \cup {QueryOk(Absent)},
   executeQuery |-> [flag : BaseURLSettings, cfg : BaseURLSettings, endpoint : Endpoints]]

ProcInit ==
  /\ NewExporter
  /\ plan = NoPlan /\ round = 0 /\ firstKeys = {} /\ lastElapsed = 0
  /\ procName \in DOMAIN ProcInputs
  /\ procIn \in ProcInputs[procName]
  /\ procOut = NotRun

\* What a processor did to the vectors (or sent), and whether it panicked.
Ran(r) == [ws |-> r.ws, panic |-> r.panic, run |-> TRUE]
\* What a client call returned.
Returned(r) == [err |-> r.err, doc |-> r.doc, run |-> TRUE]

\* The function is applied once: out is what it gives.
Apply(out) ==
  /\ ~procOut.run
  /\ procOut' = out
  /\ UNCHANGED <<cvars, ivars, procName, procIn>>

ApplyProcessLBaaSData ==
  /\ procName = "processLBaaSData"
  /\ Apply(Ran(Run(processLBaaSData(procIn))))

ApplyProcessK8SClusters ==
  /\ procName = "processK8SClusters"
  /\ Apply(Ran(Run(processK8SClusters(procIn))))

ApplyProcessK8SProjects ==
  /\ procName = "processK8SProjects"
  /\ Apply(Ran(processK8SProjects(procIn)))

ApplyProcessCloudInstances ==
  /\ procName = "processCloudInstances"
  /\ Apply(Ran(Run(processCloudInstances(procIn))))

ApplyProcessCloudResources ==
  /\ procName = "processCloudResources"
  /\ Apply(Ran(Run(processCloudResources(procIn))))

ApplyProcessServerInfo ==
  /\ procName = "processServerInfo"
  /\ Apply(Ran(Run(processServerInfo(procIn.doc, procIn.serviceType))))

ApplyProcessInvoicesInfo ==
  /\ procName = "processInvoicesInfo"
  /\ Apply(Ran(Run(processInvoicesInfo(procIn))))

ApplyProcessVpsServersStatus ==
  /\ procName = "processVpsServersStatus"
  /\ Apply(Ran(Run(processVpsServersStatus(procIn))))

\* The body of Collect's loop over the domains.
ApplyDomainWrites ==
  /\ procName = "DomainWrites"
  /\ Apply(Ran(Run(Done(DomainWrites(procIn)))))

\* GetBalance and the three writes Collect makes from what it returns.
ApplyGetBalance ==
  /\ procName = "GetBalance"
  /\ Apply([ws |-> IF GetBalance(procIn).err THEN <<>> ELSE BalanceWrites(GetBalance(procIn)),
            panic |-> FALSE, err |-> GetBalance(procIn).err, run |-> TRUE])

\* GetDomains, called for an account that holds procIn.domains, and the
\* loop Collect runs over the items it returns.
ApplyGetDomains ==
  /\ procName = "GetDomains"
  /\ Apply([ws |-> IF GetDomains(procIn.q).err THEN <<>>
                   ELSE Run(Done(FlatMap(DomainWrites, GetDomains(procIn.q).Items))).ws,
            panic |-> FALSE, err |-> GetDomains(procIn.q).err, run |-> TRUE])

ApplyGetK8SClusters ==
  /\ procName = "GetK8SClusters"
  /\ Apply(Returned(GetK8SClusters(procIn)))

ApplyGetK8SProjects ==
  /\ procName = "GetK8SProjects"
  /\ Apply(Returned(GetK8SProjects(procIn)))

ApplyGetVpsServersStatus ==
  /\ procName = "GetVpsServersStatus"
  /\ Apply(Returned(GetVpsServersStatus(procIn)))

\* main, NewWithOptions and executeQuery: where a request is posted.
ApplyExecuteQuery ==
  /\ procName = "executeQuery"
  /\ Apply([url |-> finalEndpoint(NewWithOptions(OptionBaseURL(procIn.flag, procIn.cfg)),
                                  procIn.endpoint),
            run |-> TRUE])

ProcNext ==
  \/ ApplyProcessLBaaSData
  \/ ApplyProcessK8SClusters
  \/ ApplyProcessK8SProjects
  \/ ApplyProcessCloudInstances
  \/ ApplyProcessCloudResources
  \/ ApplyProcessServerInfo
  \/ ApplyProcessInvoicesInfo
  \/ ApplyProcessVpsServersStatus
  \/ ApplyDomainWrites
  \/ ApplyGetBalance
  \/ ApplyGetDomains
  \/ ApplyGetK8SClusters
  \/ ApplyGetK8SProjects
  \/ ApplyGetVpsServersStatus
  \/ ApplyExecuteQuery

ProcSpec == ProcInit /\ [][ProcNext]_vars


\* ------------------------------------------------------------ properties
\* A Collect call has sent everything it sends and is about to return.
Emitted(p) == pc[p] = "emitted"

\* The samples a Collect call has sent.
Out(p) == BagToSet(ch[p])

\* A Collect call is between mutex.Lock() and mutex.Unlock().
InCollect(p) == pc[p] \notin {"idle", "lock", "panic"}

\* The sources this exporter fetches in a cycle that runs to its end.
CycleSources ==
  IF serviceID = "" THEN Sources \ {"vpc_servers", "vps_servers"} ELSE Sources

SuccessIs(p, v) == Sample(SuccessName, <<>>, v) \in Out(p)

BalanceNames == {"pskz_prepay_balance", "pskz_credit_balance", "pskz_debt_balance"}

K8sClusterNames ==
  {"pskz_k8s_cluster_count", "pskz_k8s_cluster_status", "pskz_k8s_cluster_nodes",
   "pskz_k8s_cluster_masters", "pskz_k8s_nodegroup_status", "pskz_k8s_nodegroup_nodes",
   "pskz_k8s_nodegroup_cores", "pskz_k8s_nodegroup_ram_mb"}

\* Whether metric m is fed by source src and by no other source.
FedOnlyBy(src, m) ==
  CASE src = "extended_balance" -> m \in {"pskz_bonus_balance", "pskz_blocked_balance"}
    [] src = "balance" -> m = "pskz_debt_balance"
    [] src = "domain_counters" -> m = "pskz_domain_counters"
    [] src = "domains" -> m \in {"pskz_domain_expiry_days", "pskz_domain_status"}
    [] src = "projects" -> m \in {"pskz_project_amount", "pskz_project_disk_usage_gb",
                                 "pskz_project_disk_limit_gb", "pskz_project_bw_usage_gb",
                                 "pskz_project_bw_limit_gb"}
    [] src = "invoices" -> m \in {"pskz_invoice_counters", "pskz_invoice_amount"}
    [] src = "cloud_resources" -> m \in {"pskz_cloud_quota", "pskz_cloud_summary"}
    [] src = "vps_status" -> m \in {"pskz_vps_server_status", "pskz_vps_server_ram_mb",
                                   "pskz_vps_server_cores"}
    [] src = "k8s_clusters" -> m \in K8sClusterNames
    [] src = "k8s_projects" -> m \notin DOMAIN LabelArity \cup SelfNames
    [] src = "lbaas" -> m \in {"pskz_lbaas_loadbalancer_count",
                              "pskz_lbaas_loadbalancer_status", "pskz_lbaas_listeners_count",
                              "pskz_lbaas_pools_count", "pskz_lbaas_members_count",
                              "pskz_lbaas_flavor", "pskz_lbaas_floating_ip"}
    [] OTHER -> FALSE

\* C1: in every scrape cycle every source is fetched, whichever earlier
\* fetch of the cycle failed: a cycle that has sent its output has made the
\* client call of every source.
C1_EverySourceAttempted ==
  \A p \in Procs : Emitted(p) => CycleSources \subseteq attempted[p]

\* C2: at the end of every scrape cycle scrape_success is 0 exactly when
\* the balance fetch failed in that cycle; the failure of any other source,
\* the domains fetch included, leaves it at 1.
C2_SuccessZeroIffBalanceFailed ==
  \A p \in Procs : Emitted(p) =>
    /\ SuccessIs(p, 0) <=> "balance" \in failed[p]
    /\ SuccessIs(p, 1) <=> "balance" \notin failed[p]

\* C3: when the balance fetch fails in a cycle, scrape_success is 0 and the
\* output still holds every sample the other sources' processors wrote in
\* that cycle.
C3_BalanceFailureKeepsOtherMetrics ==
  \A p \in Procs : (Emitted(p) /\ "balance" \in failed[p]) =>
    /\ SuccessIs(p, 0)
    /\ {s \in vec : Key(s) \in written[p] /\ s.m \notin SelfNames} \subseteq Out(p)

\* C4: for every source fetched in a cycle, the last_scrape_error sample
\* under that source's error_type in the cycle's output is 1 if the fetch
\* failed and 0 if it succeeded, also for the two fetches that share
\* vps_servers_fetch_error.
C4_ErrorGaugeMatchesEachFetch ==
  \A p \in Procs : Emitted(p) =>
    \A src \in attempted[p] :
      ErrSample(ErrType[src], IF src \in failed[p] THEN 1 ELSE 0) \in Out(p)

\* The sources whose fetch failed in the call: the client call returned an
\* error, or the query behind it failed.
FetchFailed(p) == failed[p] \cup qfailed[p]

C6_MutualExclusion ==
  \A p \in Procs : InCollect(p) =>
    /\ mutex = p
    /\ \A q \in Procs \ {p} : ~InCollect(q)

\* One call is inside Collect while another waits at Lock.
C6_Witness ==
  \E p, q \in Procs : p # q /\ InCollect(p) /\ pc[p] = "invoices" /\ pc[q] = "lock"

\* C7: every sample of a domain metric in a cycle's output has a label tuple
\* written during that cycle: nothing of an entity that was in the previous
\* cycle's documents and is not in this cycle's.
C7_OnlyThisCyclesLabels ==
  \A p \in Procs : Emitted(p) =>
    \A s \in Out(p) : s.m \notin SelfNames => Key(s) \in written[p]

\* A cycle ran to its end with its invoices fetched, and an invoice of the
\* previous cycle is not in its output.
C7_Witness ==
  \E p \in Procs : /\ Emitted(p) /\ "lbaas" \in attempted[p] /\ "invoices" \notin failed[p]
                   /\ before[p] \ Keys(Out(p)) # {}

\* C8: every sample in a cycle's output, every last_scrape_error sample
\* included, was set during that cycle.  (The duration gauge, which is set
\* when a call returns, is left aside.)
C8_EverySampleSetThisCycle ==
  \A p \in Procs : Emitted(p) =>
    \A s \in Out(p) : s.m # DurationName => Key(s) \in written[p]

\* C9: when every fetch of a cycle fails, the output holds only the self
\* metrics, scrape_success is 0 and last_scrape_error is 1 for the error_type
\* of every source.
C9_AllFailedReportsAllErrors ==
  \A p \in Procs : (Emitted(p) /\ attempted[p] # {} /\ failed[p] = attempted[p]) =>
    /\ \A s \in Out(p) : s.m \in SelfNames
    /\ SuccessIs(p, 0)
    /\ \A src \in CycleSources : ErrSample(ErrType[src], 1) \in Out(p)

\* The balance fetch succeeded and the K8s clusters query failed in the cycle.
K8sQueryFailedCycle(p) ==
  Emitted(p) /\ "balance" \notin failed[p] /\ "k8s_clusters" \in qfailed[p]

BalancePopulated(p) ==
  \A m \in BalanceNames : [m |-> m, l |-> <<"default">>] \in Keys(Out(p))

C11_NoPanicReachesCollect ==
  ~crashed /\ \A p \in Procs : pc[p] # "panic"

\* The function named name has been applied to procIn.
Applied(name) == procName = name /\ procOut.run

\* The samples the applied function wrote or sent.
OutSamples == SeqRange(procOut.ws)

\* The objects among the items of the list at path.pagination.items of doc.
ItemsAt(doc, path) ==
  LET items == Get(Walk(doc, path \o <<"pagination">>), "items")
  IN IF IsArr(items) THEN {items.a[i] : i \in {j \in 1..Len(items.a) : IsObj(items.a[j])}}
     ELSE {}

\* The account info object GetBalance decodes.
BalanceInfoOf(q) == Walk(q.doc, <<"data", "account", "current", "info">>)

\* C12: a numeric gauge is written only when the document holds the field
\* it is read from: the prepay, credit and debt balances Collect writes from
\* GetBalance only when the account info holds balance, credit.credit and a
\* debt; pskz_lbaas_floating_ip only for a load balancer that has a
\* floatingIpAddress; pskz_k8s_cluster_nodes only for a cluster that has a
\* numeric nodeCount.
C12_AbsentFieldNotWritten ==
  /\ (Applied("GetBalance") /\ ~procOut.err) =>
       LET info == BalanceInfoOf(procIn) IN
       \A s \in OutSamples :
         /\ s.m = "pskz_prepay_balance" => IsObj(info) /\ IsNum(Get(info, "balance"))
         /\ s.m = "pskz_credit_balance" =>
              IsObj(info) /\ IsObj(Get(info, "credit")) /\ IsNum(Get(Get(info, "credit"), "credit"))
         /\ s.m = "pskz_debt_balance" => IsObj(info) /\ IsNum(Get(info, "debt"))
  /\ Applied("processLBaaSData") =>
       \A s \in OutSamples : s.m = "pskz_lbaas_floating_ip" =>
         \E lb \in ItemsAt(procIn, <<"data", "lbaas", "loadBalancer">>) :
           /\ s.l = <<StrOrEmpty(lb, "_id"), StrOr(lb, "name", "unknown")>>
           /\ Get(lb, "floatingIpAddress") # Absent
  /\ Applied("processK8SClusters") =>
       \A s \in OutSamples : s.m = "pskz_k8s_cluster_nodes" =>
         \E c \in ItemsAt(procIn, <<"data", "k8saas", "cluster">>) :
           /\ s.l = <<StrOrEmpty(c, "_id"), StrOr(c, "name", "unknown")>>
           /\ IsNum(Get(c, "nodeCount"))

\* The status gauges whose status string is one of the sample's labels, with
\* the position of that label and the healthy set of the domain.
StatusLabelAt ==
  [pskz_domain_status |-> 2, pskz_server_status |-> 3, pskz_k8s_cluster_status |-> 3,
   pskz_k8s_nodegroup_status |-> 5, pskz_lbaas_loadbalancer_status |-> 5]

HealthySet(m) ==
  CASE m = "pskz_domain_status" -> {"active"}
    [] m \in {"pskz_k8s_cluster_status", "pskz_k8s_nodegroup_status"} ->
         {"CREATE_COMPLETE", "UPDATE_COMPLETE"}
    [] OTHER -> {"ACTIVE"}

\* C13: every status gauge a processor writes is 1 when the raw status
\* string is in the domain's healthy set and 0 for every other status
\* string; no other value is written.  (The cloud instance status is the
\* pskz_cloud_instance_info sample labelled info="status".)
C13_StatusGaugeIsOneOrZero ==
  (procOut.run /\ "ws" \in DOMAIN procOut) =>
    /\ \A s \in OutSamples : s.m \in DOMAIN StatusLabelAt =>
         s.v = (IF s.l[StatusLabelAt[s.m]] \in HealthySet(s.m) THEN 1 ELSE 0)
    /\ Applied("processCloudInstances") =>
         \A item \in ItemsAt(procIn, <<"data", "vpc", "instance">>) : \A s \in OutSamples :
           (s.m = "pskz_cloud_instance_info" /\ s.l = <<StrOrEmpty(item, "instanceName"), "status">>)
             => s.v = (IF StrOrEmpty(item, "status") = "ACTIVE" THEN 1 ELSE 0)

\* The vectors after the applied processor's writes, starting empty.
OutVec == ApplyWrites({}, procOut.ws)

\* The cluster items of the input that processK8SClusters walks.
WalkedClusters == {c \in ItemsAt(procIn, <<"data", "k8saas", "cluster">>) : ClusterWalked(c)}

\* C14: for every cluster item with a string _id (the _id values of a
\* document being distinct), pskz_k8s_cluster_status under the cluster's
\* labels is 1 exactly when its status is CREATE_COMPLETE or UPDATE_COMPLETE
\* and 0 otherwise, and pskz_k8s_cluster_nodes and pskz_k8s_cluster_masters
\* under (cluster_id, name) equal the item's numeric nodeCount and
\* masterCount; so status CREATE_COMPLETE, nodeCount 3, masterCount 1 give
\* 1, 3 and 1.
C14_ClusterGaugesFollowItem ==
  Applied("processK8SClusters") =>
    \A c \in WalkedClusters :
      LET id == Get(c, "_id").s
          name == StrOr(c, "name", "unknown")
          status == StrOr(c, "status", "unknown")
          mine == {s \in OutVec : s.m = "pskz_k8s_cluster_status" /\ s.l[1] = id}
      IN /\ mine # {}
         /\ \A s \in mine :
              /\ s.l[2] = name /\ s.l[3] = status
              /\ s.v = (IF status \in {"CREATE_COMPLETE", "UPDATE_COMPLETE"} THEN 1 ELSE 0)
         /\ IsNum(Get(c, "nodeCount")) =>
              Sample("pskz_k8s_cluster_nodes", <<id, name>>, Get(c, "nodeCount").n) \in OutVec
         /\ IsNum(Get(c, "masterCount")) =>
              Sample("pskz_k8s_cluster_masters", <<id, name>>, Get(c, "masterCount").n) \in OutVec

\* processK8SClusters has run on a document with two clusters, the first
\* with status UPDATE_COMPLETE, nodeCount 3 and masterCount 1.
C14_Witness ==
  /\ Applied("processK8SClusters")
  /\ Cardinality(WalkedClusters) = 2
  /\ \E c \in WalkedClusters :
       /\ Get(c, "status") = Str("UPDATE_COMPLETE")
       /\ Get(c, "nodeCount") = Num(3) /\ Get(c, "masterCount") = Num(1)
       /\ Sample("pskz_k8s_cluster_nodes", <<"c1", "prod">>, 3) \in OutVec

\* The objects in the array under key of obj.
ObjectsIn(obj, key) ==
  LET a == Get(obj, key)
  IN IF IsArr(a) THEN {a.a[i] : i \in {j \in 1..Len(a.a) : IsObj(a.a[j])}} ELSE {}

\* The quota entries of the input that carry a string key, each with the
\* project and the service it stands under.
KeyedQuotaEntries ==
  {x \in UNION {UNION {{[project |-> pr, service |-> sv, entry |-> e] :
                          e \in ObjectsIn(sv, "quota")} :
                       sv \in ObjectsIn(pr, "openstackServices")} :
                pr \in ItemsAt(procIn, <<"data", "k8saas", "project">>)} :
     IsStr(Get(x.entry, "key"))}

\* The samples C15 has a quota entry yield.
QuotaSamplesOf(x) ==
  LET prefix == "pskz_k8s_project_quota_" \o StrOrEmpty(x.service, "name") \o "_"
                  \o Get(x.entry, "key").s
      l == <<StrOrEmpty(x.project, "projectId"), StrOrEmpty(x.project, "projectName"),
             StrOrEmpty(x.service, "regionId")>>
  IN (IF IsNum(Get(x.entry, "limit"))
      THEN {Sample(prefix \o "_limit", l, Get(x.entry, "limit").n)} ELSE {})
     \cup (IF IsNum(Get(x.entry, "inUse"))
           THEN {Sample(prefix \o "_used", l, Get(x.entry, "inUse").n)} ELSE {})

IsCountSample(s) == s.m \in {"pskz_k8s_project_status_count", "pskz_k8s_project_type_count"}
IsQuotaSample(s) == ~IsCountSample(s)

\* The array under key of obj, empty when there is none.
ArrAt(obj, key) == IF IsObj(obj) /\ IsArr(Get(obj, key)) THEN Get(obj, key).a ELSE <<>>

\* The project items of the input, in order.
ProjectList == ArrAt(Walk(procIn, <<"data", "k8saas", "project", "pagination">>), "items")

\* The quota entry at position k of service j of project i.
EntryAt(pos) ==
  LET project == ProjectList[pos[1]]
      service == ArrAt(project, "openstackServices")[pos[2]]
  IN [project |-> project, service |-> service, entry |-> ArrAt(service, "quota")[pos[3]]]

\* The positions of the quota entries that carry a string key.
KeyedQuotaPositions ==
  {pos \in UNION {UNION {{<<i, j, k>> :
                            k \in 1..Len(ArrAt(ArrAt(ProjectList[i], "openstackServices")[j],
                                               "quota"))} :
                         j \in 1..Len(ArrAt(ProjectList[i], "openstackServices"))} :
                  i \in 1..Len(ProjectList)} :
     /\ IsObj(EntryAt(pos).service) /\ IsObj(EntryAt(pos).entry)
     /\ IsStr(Get(EntryAt(pos).entry, "key"))}

\* Every project of the input has a string projectId and projectName.
ProjectsNamed ==
  \A i \in 1..Len(ProjectList) :
    IsObj(ProjectList[i]) => /\ IsStr(Get(ProjectList[i], "projectId"))
                             /\ IsStr(Get(ProjectList[i], "projectName"))
                             /\ Get(ProjectList[i], "projectName").s # ""

\* C15: for projects with a string projectId and projectName, the quota
\* samples processK8SProjects sends are, for each quota entry with a string
\* key, pskz_k8s_project_quota_<service>_<key>_limit with the entry's
\* numeric limit and ..._used with its numeric inUse, labelled (project_id,
\* project_name, region_id), each sent once for the entry, and only the one
\* whose field is there when the other is absent; nothing else is sent as a
\* quota.
C15_QuotaEntryYieldsLimitAndUsed ==
  (Applied("processK8SProjects") /\ ProjectsNamed) =>
    /\ {s \in OutSamples : IsQuotaSample(s)} = UNION {QuotaSamplesOf(x) : x \in KeyedQuotaEntries}
    /\ \A s \in {t \in OutSamples : IsQuotaSample(t)} :
         Cardinality({i \in 1..Len(procOut.ws) : procOut.ws[i] = s})
           = Cardinality({pos \in KeyedQuotaPositions : s \in QuotaSamplesOf(EntryAt(pos))})

\* processK8SProjects has run on a project whose compute service has the
\* quota entry (ram, limit 100, inUse 40) and has sent its two samples.
C15_Witness ==
  /\ Applied("processK8SProjects")
  /\ \E x \in KeyedQuotaEntries :
       /\ Get(x.entry, "key") = Str("ram")
       /\ Get(x.entry, "limit") = Num(100) /\ Get(x.entry, "inUse") = Num(40)
  /\ Sample("pskz_k8s_project_quota_compute_ram_limit", <<"p1", "main", "r1">>, 100)
       \in OutSamples
  /\ Sample("pskz_k8s_project_quota_compute_ram_used", <<"p1", "main", "r1">>, 40)
       \in OutSamples
  /\ Len(SelectSeq(procOut.ws, IsQuotaSample)) = 2

PlaceholderPath ==
  [GetK8SClusters |-> <<"data", "k8saas", "cluster", "pagination">>,
   GetK8SProjects |-> <<"data", "k8saas", "project", "pagination">>,
   GetVpsServersStatus |-> <<"data", "vps", "server", "pagination">>]

\* C19: GetK8SClusters, GetK8SProjects and GetVpsServersStatus never return
\* an error; when their query fails (or answers null) they return a
\* document whose pagination holds count 0 and an empty items list.
C19_PlaceholderInsteadOfError ==
  \A name \in DOMAIN PlaceholderPath : Applied(name) =>
    /\ ~procOut.err
    /\ (procIn.err \/ procIn.doc = Absent) =>
         LET pagination == Walk(procOut.doc, PlaceholderPath[name])
         IN /\ IsObj(pagination)
            /\ Get(pagination, "count") = Num(0)
            /\ Get(pagination, "items") = Arr(<<>>)

\* GetVpsServersStatus has returned after its query failed.
C19_Witness ==
  Applied("GetVpsServersStatus") /\ procIn.err /\ IsObj(procOut.doc)

\* C20: when a base URL is configured, by the flag or else by the
\* configuration, every request of the client is posted to a URL under it.
C20_RequestsUnderConfiguredBaseURL ==
  Applied("executeQuery") =>
    LET configured == IF procIn.flag # NoURL THEN procIn.flag ELSE procIn.cfg
    IN configured # NoURL => HasPrefix(procOut.url, configured)

\* Some call can take its next step: one inside Collect, or one at Lock with
\* the mutex free.
CanProgress == \E q \in Procs : StepEnabled(q) \/ LockEnabled(q)

\* C18: a scrape request waiting for the mutex eventually acquires it and
\* completes its own cycle; stated on finite runs: while a request waits at
\* Lock the program never comes to a stop, the holder of the mutex or the
\* waiting request itself can always take its next step.
C18_WaitingScrapeCompletes ==
  \A p \in Procs : pc[p] = "lock" => CanProgress

C21_EveryDomainHasItsSamples ==
  (Applied("GetDomains") /\ ~procOut.err) =>
    \A d \in procIn.domains :
      /\ \E s \in OutSamples : s.m = "pskz_domain_expiry_days" /\ s.l = <<d>>
      /\ \E s \in OutSamples : s.m = "pskz_domain_status" /\ Len(s.l) = 2 /\ s.l[1] = d

\* The writes the applied processor makes into the vectors, in order, a
\* panicking write and those the code has after it included.
AttemptedWrites ==
  CASE procName = "processLBaaSData" -> processLBaaSData(procIn).ws
    [] procName = "processK8SClusters" -> processK8SClusters(procIn).ws
    [] procName = "processCloudInstances" -> processCloudInstances(procIn).ws
    [] procName = "processCloudResources" -> processCloudResources(procIn).ws
    [] procName = "processServerInfo" -> processServerInfo(procIn.doc, procIn.serviceType).ws
    [] procName = "processVpsServersStatus" -> processVpsServersStatus(procIn).ws
    [] procName = "processInvoicesInfo" -> processInvoicesInfo(procIn).ws
    [] procName = "DomainWrites" -> DomainWrites(procIn)
    [] OTHER -> <<>>

\* C22: every write a processor makes into a metric vector supplies as many
\* label values as the vector was declared with in New, for every vector
\* and every document, the writes of processVpsServersStatus into
\* vps_server_status, vps_server_ram_mb and vps_server_cores included.
C22_WritesMatchDeclaredArity ==
  procOut.run => \A i \in 1..Len(AttemptedWrites) : ArityOk(AttemptedWrites[i])

\* The document the applied processor was given.
ProcDoc == IF procName = "processServerInfo" THEN procIn.doc ELSE procIn

\* C23: when pagination.items of a source document is absent or is not a
\* list, the processor of that source returns without having written a
\* sample, count and counter samples included.
C23_NoListNoSample ==
  \A name \in DOMAIN ListPath :
    (Applied(name) /\ ~IsArr(Walk(ProcDoc, ListPath[name] \o <<"pagination", "items">>)))
      => AttemptedWrites = <<>> /\ OutSamples = {}

\* The objects among the items of the applied processor's document.
ProcItems == ItemsAt(ProcDoc, ListPath[procName])

\* The writes the applied processor makes, as a set.
Attempted == SeqRange(AttemptedWrites)

\* C24: every item a processor walks has its metrics written, an identity
\* field that is absent from the item (id, name, region, endpoint) standing
\* in the labels as "unknown": no item is dropped and no identity label is
\* left empty.
C24_AbsentIdentityIsUnknown ==
  /\ Applied("processK8SClusters") =>
       \A c \in ProcItems : \E s \in Attempted :
         /\ s.m = "pskz_k8s_cluster_status"
         /\ s.l[1] = StrOr(c, "_id", "unknown") /\ s.l[2] = StrOr(c, "name", "unknown")
         /\ s.l[4] = StrOr(c, "endpointId", "unknown")
         /\ s.l[5] = StrOr(c, "regionId", "unknown")
  /\ Applied("processLBaaSData") =>
       \A lb \in ProcItems : \E s \in Attempted :
         /\ s.m = "pskz_lbaas_loadbalancer_status"
         /\ s.l[1] = StrOr(lb, "_id", "unknown") /\ s.l[2] = StrOr(lb, "name", "unknown")
         /\ s.l[3] = StrOr(lb, "regionId", "unknown")
  /\ Applied("processVpsServersStatus") =>
       \A v \in ProcItems : \E s \in Attempted :
         /\ s.m = "pskz_vps_server_status"
         /\ s.l[1] = (IF IsNum(Get(v, "serverId")) THEN ToString(Get(v, "serverId").n)
                      ELSE "unknown")
         /\ s.l[2] = StrOr(v, "name", "unknown")

\* The item has no status string: the field is missing or of another kind.
NoStatus(item, key) == ~IsStr(Get(item, key))

\* The per-status tally m holds the status "unknown" with at least one item.
TalliedUnknown(m, l) == \E t \in Attempted : t.m = m /\ t.l = l /\ t.v >= 1

\* C25: an item whose status is missing or not a string is recorded under
\* the literal status "unknown", in its status label and in the per-status
\* tally, for VPS servers, K8s clusters, K8s node groups, K8s projects and
\* load balancers.
C25_MissingStatusIsUnknown ==
  /\ Applied("processVpsServersStatus") =>
       \A v \in {x \in ProcItems : NoStatus(x, "status")} :
         /\ \E s \in Attempted : /\ s.m = "pskz_vps_server_status"
                                 /\ s.l[2] = StrOrEmpty(v, "name") /\ s.l[3] = "unknown"
         /\ TalliedUnknown("pskz_vps_server_status", <<"all", "total", "unknown">>)
  /\ Applied("processK8SClusters") =>
       /\ \A c \in {x \in WalkedClusters : NoStatus(x, "status")} :
            /\ \E s \in Attempted : /\ s.m = "pskz_k8s_cluster_status"
                                    /\ s.l[1] = Get(c, "_id").s /\ s.l[3] = "unknown"
            /\ TalliedUnknown("pskz_k8s_cluster_count", <<"unknown">>)
       /\ \A c \in WalkedClusters :
            \A ng \in {x \in ObjectsIn(c, "clusterNodeGroups") :
                         IsStr(Get(x, "_id")) /\ NoStatus(x, "status")} :
              \E s \in Attempted : /\ s.m = "pskz_k8s_nodegroup_status"
                                   /\ s.l[3] = Get(ng, "_id").s /\ s.l[5] = "unknown"
  /\ Applied("processK8SProjects") =>
       \A pr \in {x \in ProcItems : NoStatus(x, "status")} :
         \E t \in OutSamples : /\ t.m = "pskz_k8s_project_status_count"
                               /\ t.l = <<"unknown">> /\ t.v >= 1
  /\ Applied("processLBaaSData") =>
       \A lb \in {x \in ProcItems : LbWalked(x) /\ NoStatus(x, "provisioningStatus")} :
         /\ \E s \in Attempted : /\ s.m = "pskz_lbaas_loadbalancer_status"
                                 /\ s.l[1] = Get(lb, "_id").s /\ s.l[5] = "unknown"
         /\ TalliedUnknown("pskz_lbaas_loadbalancer_count", <<"unknown">>)

\* The sum of the values of a set of samples.
RECURSIVE SumOfValues(_)
SumOfValues(S) ==
  IF S = {} THEN 0 ELSE LET x == CHOOSE y \in S : TRUE IN x.v + SumOfValues(S \ {x})

\* The number of items of the applied processor's list that its pass counts.
CountedInPass ==
  LET items == Walk(ProcDoc, ListPath[procName] \o <<"pagination", "items">>).a
  IN Len(SelectSeq(items, LbWalked))

\* The count vector of the applied processor.
CountName ==
  IF procName = "processK8SClusters" THEN "pskz_k8s_cluster_count"
  ELSE "pskz_lbaas_loadbalancer_count"

\* C26: for K8s clusters and for load balancers, after the processor has run
\* over a list, the count sample labelled "total" equals the number of
\* items counted in the pass, which equals the sum of the per-status count
\* samples.
C26_TotalIsSumOfStatusCounts ==
  \A name \in {"processK8SClusters", "processLBaaSData"} :
    (Applied(name) /\ IsArr(Walk(ProcDoc, ListPath[name] \o <<"pagination", "items">>))) =>
      /\ Sample(CountName, <<"total">>, CountedInPass) \in OutVec
      /\ SumOfValues({s \in OutVec : s.m = CountName /\ s.l # <<"total">>}) = CountedInPass

\* The order C27 gives the sources in, the two server sources left out when
\* the exporter has no service ID.
CycleOrder ==
  LET all == <<"extended_balance", "balance", "domain_counters", "domains", "projects",
               "invoices", "cloud_resources", "cloud_instances", "vps_status",
               "vpc_servers", "vps_servers", "k8s_clusters", "k8s_projects", "lbaas">>
  IN SelectSeq(all, LAMBDA src : src \in CycleSources)

\* C27: within a cycle the fetch-and-process steps run one after the other
\* in the one order extended balance, balance, domain counters, domains,
\* projects, invoices, cloud resources, cloud instances, VPS status, (VPC
\* servers, VPS servers), K8s clusters, K8s projects, load balancers: the
\* sources fetched so far are an initial stretch of that order, and the
\* source about to be fetched is the one that follows it.
C27_SourcesInFixedOrder ==
  \A p \in Procs :
    \E n \in 0..Len(CycleOrder) :
      /\ attempted[p] = {CycleOrder[i] : i \in 1..n}
      /\ pc[p] \in Sources => n < Len(CycleOrder) /\ pc[p] = CycleOrder[n + 1]
      /\ pc[p] = "emit" => n = Len(CycleOrder)

\* A cycle of an exporter with a service ID has fetched all fourteen sources
\* and sent its output.
C27_Witness ==
  \E p \in Procs : /\ Emitted(p) /\ serviceID # ""
                   /\ attempted[p] = Sources /\ Len(CycleOrder) = Cardinality(Sources)

\* The queries the client posts.
Queries == {QueryOf[src] : src \in Sources} \ {""}

\* How many times the calls a cycle has made so far have posted query.
Issued(p, query) == Cardinality({src \in attempted[p] : QueryOf[src] = query})

\* The client call Collect is about to make has not been made in this cycle.
NoSecondAttempt(p) == pc[p] \in Sources => pc[p] \notin attempted[p]

\* C28 as stated: within one cycle no fetch is made a second time and every
\* backend query is posted at most once, the account query of
\* GetAccountBalance, GetBalance and GetDomains included.
C28_EachQueryIssuedOnce ==
  \A p \in Procs : NoSecondAttempt(p) /\ \A query \in Queries : Issued(p, query) <= 1

\* C28, amended: within one cycle every client call of Collect is made at
\* most once and none is made again after a failure; the account query is
\* posted once by each of GetAccountBalance, GetBalance and GetDomains, up to
\* three times in a cycle, and every other query at most once.
C28_EachCallMadeOnce ==
  \A p \in Procs :
    /\ NoSecondAttempt(p)
    /\ \A query \in Queries :
         Issued(p, query) <= Cardinality({src \in Sources : QueryOf[src] = query})
    /\ \A query \in Queries \ {"account_current_info"} : Issued(p, query) <= 1

\* A cycle has gone past a failed invoices fetch to its end, the account
\* query having been posted three times.
C28_Witness ==
  \E p \in Procs : /\ Emitted(p) /\ "invoices" \in failed[p] /\ "lbaas" \in attempted[p]
                   /\ Issued(p, "account_current_info") = Cardinality({"extended_balance",
                                                                       "balance", "domains"})

\* C29: the scrape_duration_seconds sample a Collect call sends is the
\* elapsed time of the call that returned before it (the gauge's initial 0
\* for the first call): the gauge is set by a deferred function, after the
\* call has sent its samples, so a call never sends its own elapsed time.
C29_DurationIsPreviousCalls ==
  \A p \in Procs : Emitted(p) =>
    /\ Sample(DurationName, <<>>, lastElapsed) \in Out(p)
    /\ \A s \in Out(p) : s.m = DurationName => s.v = lastElapsed
    /\ CopiesIn(Sample(DurationName, <<>>, lastElapsed), ch[p]) = 1

\* A call has sent the elapsed time MaxElapsed of the call before it.
C29_Witness ==
  \E p \in Procs : /\ Emitted(p) /\ lastElapsed = MaxElapsed
                   /\ Sample(DurationName, <<>>, MaxElapsed) \in Out(p)

\* C30: no two samples sent in a cycle share both metric name and label
\* values, whatever the document: the quota samples and the status and type
\* count samples that processK8SProjects sends straight to the output are
\* pairwise distinct in name and labels.
C30_SentSamplesAreDistinct ==
  Applied("processK8SProjects") =>
    \A i, j \in 1..Len(procOut.ws) :
      i # j => Key(procOut.ws[i]) # Key(procOut.ws[j])


====
